---- MODULE Spec2Model ----
(***************************************************************************)
(* A model of the Smart-Info-Agent repository: the JSON-file memory store, *)
(* the LangGraph agent loop, the four HTTP tools, the document parsers of  *)
(* the RAG pipeline, the two-worker OCR pool and the retriever.            *)
(* Each component has its own specification (SpecMemory, SpecAgent, ...);  *)
(* the variables of the other components stay at their idle values.        *)
(***************************************************************************)
EXTENDS Integers, Sequences, FiniteSets, TLC

VARIABLES
    \* core/memory_store.py
    file,        \* the JSON file on disk: [kind, doc]
    data,        \* store instance -> self.data (a dict: key -> value)
    mem_last,    \* the last MemoryStore call: [op, store, outcome]
    clock,       \* the wall clock read by datetime.now()
    appended,    \* history: store instance -> the append calls made since its list was last empty
    tracking,    \* history: store instance -> TRUE while only append calls followed an empty list
    \* core/graph_builder.py
    pc,          \* the node the graph runs next ("END" when the run is over)
    messages,    \* AgentState["messages"]
    llm_calls,   \* AgentState["llm_calls"]
    trace,       \* history: the nodes that ran so far in this run, in order
    \* tools/*.py
    access_token,  \* AmadeusAPI.access_token of amadeus_client
    tool_runs,     \* the number of tool invocations made so far
    tool_run,      \* the tool invocation whose result the caller holds: its arguments,
                   \* what the HTTP calls did, its result (tool "none": no invocation)
    \* core/rag.py
    collection,    \* the Chroma collection: chunk id -> [text, source, chunk]
    idx,           \* the index_documents call made: its arguments, the files parsed, how it ended
    \* core/utils.py: parse_pdf
    pdf_doc,       \* the PDF given to parse_pdf: what opening it and each of its pages do
    pdf_run,       \* the parse_pdf call: its position, final_text, what was done per page
    \* core/utils.py: parallel_ocr
    ocr_args,      \* the arguments of the parallel_ocr call: blank_pages and max_pages
    ocr_pool,      \* the call and its executor: futures, worker threads, ocr_results
    \* core/rag.py: get_retriever_for_collection
    vector_store,  \* what the store holds for the query, best first: (Document, score) pairs
    retr,          \* the retriever made and the call made to it
    \* core/utils.py: chunk_text
    chunk_args,    \* the arguments of the chunk_text call: text, chunk_size, overlap
    chunk_run,     \* the chunk_text call: its position, joined, the loop variables, its result
    \* agent/tool_invocation_node.py
    inv,           \* the tool_invocation_node call: the AgentState given and returned, the
                   \* tool invocation made
    \* main.py
    sess,          \* the command-line session: its position, the last command and what it
                   \* printed; history: the turns agent.run recorded
    \* app.py
    ui             \* the document upload of the web page: the session state and the last
                   \* message; history: the calls made and the ids earlier calls stored

memVars == <<file, data, mem_last, clock, appended, tracking>>
agentVars == <<pc, messages, llm_calls, trace>>

toolVars == <<access_token, tool_runs, tool_run>>

ragVars == <<collection, idx>>

pdfVars == <<pdf_doc, pdf_run>>

ocrVars == <<ocr_args, ocr_pool>>

retrVars == <<vector_store, retr>>

chunkVars == <<chunk_args, chunk_run>>

invVars == <<inv>>

sessVars == <<sess>>

uiVars == <<ui>>

vars == <<memVars, agentVars, toolVars, ragVars, pdfVars, ocrVars, retrVars, chunkVars, invVars, sessVars, uiVars>>

\* what the actions of one component leave alone
notMem == <<agentVars, toolVars, ragVars, pdfVars, ocrVars, retrVars, chunkVars, invVars, sessVars, uiVars>>
notAgent == <<memVars, toolVars, ragVars, pdfVars, ocrVars, retrVars, chunkVars, invVars, sessVars, uiVars>>
notTool == <<memVars, agentVars, ragVars, pdfVars, ocrVars, retrVars, chunkVars, invVars, sessVars, uiVars>>
notRag == <<memVars, agentVars, toolVars, pdfVars, ocrVars, retrVars, chunkVars, invVars, sessVars, uiVars>>
notPdf == <<memVars, agentVars, toolVars, ragVars, ocrVars, retrVars, chunkVars, invVars, sessVars, uiVars>>
notOcr == <<memVars, agentVars, toolVars, ragVars, pdfVars, retrVars, chunkVars, invVars, sessVars, uiVars>>
notRetr == <<memVars, agentVars, toolVars, ragVars, pdfVars, ocrVars, chunkVars, invVars, sessVars, uiVars>>
notChunk == <<memVars, agentVars, toolVars, ragVars, pdfVars, ocrVars, retrVars, invVars, sessVars, uiVars>>
notInv == <<memVars, agentVars, toolVars, ragVars, pdfVars, ocrVars, retrVars, chunkVars, sessVars, uiVars>>
notSess == <<memVars, agentVars, toolVars, ragVars, pdfVars, ocrVars, retrVars, chunkVars, invVars, uiVars>>
\* what a step of the command-line session leaves alone: all but the stores and the session
notMain == <<agentVars, toolVars, ragVars, pdfVars, ocrVars, retrVars, chunkVars, invVars, uiVars>>
\* what a step of the upload page leaves alone: all but the collection, the indexing and the page
notUpload == <<memVars, agentVars, toolVars, pdfVars, ocrVars, retrVars, chunkVars, invVars, sessVars>>
notUi == <<memVars, agentVars, toolVars, ragVars, pdfVars, ocrVars, retrVars, chunkVars, invVars, sessVars>>

----------------------------------------------------------------------------
(* Bounds of the model. *)

\* the largest clock value a run reaches
MaxClock == 3
\* the longest message list a store grows to
MaxMessages == 4
\* the most llm_node steps of one agent run
MaxLlmCalls == 2
\* the most tool calls one LLM response carries
MaxToolCalls == 2
\* the most tool invocations made in a row
MaxToolRuns == 2
\* the most files one index_documents call is given
MaxDocs == 2
\* the most pages of a PDF
MaxPdfPages == 2
\* the most characters of a text given to chunk_text
MaxTextLen == 4
\* the largest chunk_size and overlap given to chunk_text
MaxChunkSize == 3
\* the most entries of the tool_args an agent gives
MaxArgs == 2
\* the most times the Process Documents button is pressed
MaxUploads == 2
\* the most entries of blank_pages
MaxBlankPages == 3
\* the most (Document, score) pairs the store holds for a query
MaxStored == 2
\* the largest k a caller passes
MaxK == 2
\* the most characters of a query
MaxQueryLen == 2

----------------------------------------------------------------------------
(* core/memory_store.py *)

\* user inputs and assistant outputs (str)
Contents == {"hi", "ok"}

\* one element of data["messages"]
Entry(role, content, ts) == [role |-> role, content |-> content, timestamp |-> ts]

\* Python values that can sit under a key of self.data. A value is tagged with
\* its Python type; v holds the elements of a list or a tuple.
ListV(s) == [t |-> "list", v |-> s]
TupleV(s) == [t |-> "tuple", v |-> s]
\* a value json cannot encode (a set, an object)
ObjV == [t |-> "object", v |-> <<>>]

\* {"messages": []}
EmptyData == "messages" :> ListV(<<>>)

\* the file states
NoFile == [kind |-> "absent", doc |-> <<>>]
BadFile == [kind |-> "invalid", doc |-> <<>>]
JsonFile(d) == [kind |-> "json", doc |-> d]

\* json.dump(self.data, f): a tuple is written as a JSON array; a value json
\* cannot encode raises TypeError after open(..., "w") truncated the file and
\* part of the text was written, which leaves no valid JSON document.
JsonEncodable(d) == \A k \in DOMAIN d : d[k].t # "object"
JsonText(d) == [k \in DOMAIN d |-> IF d[k].t = "tuple" THEN ListV(d[k].v) ELSE d[k]]

\* MemoryStore._save_to_file: the exception of a failed dump is caught and printed
SaveToFile(d) == IF JsonEncodable(d) THEN JsonFile(JsonText(d)) ELSE BadFile

\* MemoryStore._load_from_file: the data a store has after loading file f
LoadFromFile(f) == IF f.kind = "json" THEN f.doc ELSE EmptyData

\* self.data.setdefault("messages", [])
SetDefaultMessages(d) == IF "messages" \in DOMAIN d THEN d ELSE d @@ EmptyData

\* the two entries append builds, stamped t1 and t2
NewTurn(u, a, t1, t2) == <<Entry("user", u, t1), Entry("assistant", a, t2)>>

\* a changed extend: the new entries are put in front of the list
ExtendInFront(msgs, turn) == turn \o msgs

\* self.data["messages"].extend([...])
Extend(msgs, turn) == msgs \o turn

\* self.data.get("messages", [])
GetMessages(d) == IF "messages" \in DOMAIN d THEN d["messages"] ELSE ListV(<<>>)

IsEmptyList(val) == val.t = "list" /\ val.v = <<>>

\* MemoryStore.__init__ on the file as it is
MemoryStoreInit(s) ==
    /\ data = (s :> LoadFromFile(file))
    /\ appended = (s :> <<>>)
    /\ tracking = (s :> IsEmptyList(GetMessages(LoadFromFile(file))))

\* MemoryStore.append(user_input, assistant_output); only a list has extend,
\* any other value under "messages" raises AttributeError before the save.
MemoryStore_append(s, u, a) ==
    \E t1 \in clock..(clock + 1) : \E t2 \in t1..(t1 + 1) :
        LET d == SetDefaultMessages(data[s])
            turn == NewTurn(u, a, t1, t2)
        IN  /\ t2 <= MaxClock
            /\ clock' = t2
            /\ IF d["messages"].t = "list"
               THEN /\ Len(d["messages"].v) + 2 <= MaxMessages
                    /\ data' = [data EXCEPT ![s] =
                                   [d EXCEPT !["messages"] = ListV(Extend(d["messages"].v, turn))]]
                    /\ file' = SaveToFile(data'[s])
                    /\ mem_last' = [op |-> "append", store |-> s, outcome |-> "returned"]
                    /\ appended' = [appended EXCEPT ![s] =
                                       IF tracking[s]
                                       THEN Append(@, [user |-> u, assistant |-> a, t1 |-> t1, t2 |-> t2])
                                       ELSE @]
                    /\ UNCHANGED tracking
               ELSE /\ data' = [data EXCEPT ![s] = d]
                    /\ mem_last' = [op |-> "append", store |-> s, outcome |-> "raised"]
                    /\ UNCHANGED <<file, appended, tracking>>

\* a call of append, the rest of the program standing still
append(s, u, a) == MemoryStore_append(s, u, a) /\ UNCHANGED notMem

\* MemoryStore.clear()
MemoryStore_clear(s) ==
    /\ data' = [data EXCEPT ![s] = EmptyData]
    /\ file' = SaveToFile(data'[s])
    /\ mem_last' = [op |-> "clear", store |-> s, outcome |-> "returned"]
    /\ appended' = [appended EXCEPT ![s] = <<>>]
    /\ tracking' = [tracking EXCEPT ![s] = TRUE]
    /\ UNCHANGED clock

\* a call of clear, the rest of the program standing still
clear(s) == MemoryStore_clear(s) /\ UNCHANGED notMem

\* the keys and values save is called with (value: Any)
SaveKeys == {"messages", "note"}
SaveValues == {ListV(<<>>), TupleV(<<>>), ObjV}

\* MemoryStore.save(key, value)
save(s, key, value) ==
    /\ data' = [data EXCEPT ![s] = (key :> value) @@ @]
    /\ file' = SaveToFile(data'[s])
    /\ mem_last' = [op |-> "save", store |-> s, outcome |-> "returned"]
    /\ appended' = [appended EXCEPT ![s] = <<>>]
    /\ tracking' = [tracking EXCEPT ![s] = FALSE]
    /\ UNCHANGED clock
    /\ UNCHANGED notMem

\* the files a store can be constructed on: none, an unreadable one, and files
\* an earlier session saved
StartFiles ==
    {NoFile, BadFile, JsonFile(EmptyData),
     JsonFile("messages" :> ListV(NewTurn("hi", "ok", 0, 0)))}

\* the memory component with a store opened where no file exists
IdleMemory ==
    /\ file = NoFile
    /\ MemoryStoreInit("memory")
    /\ mem_last = [op |-> "init", store |-> "memory", outcome |-> "returned"]
    /\ clock = 0

\* the agent graph before any run
IdleAgent ==
    /\ pc = "idle"
    /\ messages = <<>>
    /\ llm_calls = 0
    /\ trace = <<>>

\* no tool invocation
NoRun ==
    [tool |-> "none", input |-> "-", http |-> <<>>, auth |-> <<>>,
     result |-> [raised |-> FALSE, status |-> "none"]]

\* the tools before any invocation, amadeus_client authenticated
IdleTools ==
    /\ access_token = "token"
    /\ tool_runs = 0
    /\ tool_run = NoRun

\* no index_documents call
NoIndexing == [state |-> "idle", docs |-> <<>>, parsed |-> <<>>, ids |-> <<>>]

\* the RAG pipeline before any upload, the collection empty
IdleRag ==
    /\ collection = <<>>
    /\ idx = NoIndexing

\* parse_pdf not called
NoPdfCall == [pc |-> "idle", i |-> 0, final_text |-> <<>>, log |-> <<>>,
              raised |-> FALSE, returned |-> <<>>]

IdlePdf ==
    /\ pdf_doc = [open |-> "ok", total_pages |-> 0, broken_at |-> 0, pages |-> <<>>]
    /\ pdf_run = NoPdfCall

\* parallel_ocr not called
NoOcrCall == [pc |-> "idle", pages_to_process |-> <<>>, futures |-> <<>>, yielded |-> {},
              ocr_results |-> <<>>, returned |-> <<>>]

IdleOcr ==
    /\ ocr_args = [blank_pages |-> <<>>, max_pages |-> 0]
    /\ ocr_pool = NoOcrCall

\* no retriever called
NoRetrieverCall == [state |-> "none", top_k |-> 0, query |-> <<>>, k |-> <<>>,
                    searches |-> <<>>, returned |-> <<>>]

IdleRetr ==
    /\ vector_store = <<>>
    /\ retr = NoRetrieverCall

\* chunk_text not called
NoChunkCall == [pc |-> "idle", joined |-> <<>>, start |-> 0, iteration |-> 0, chunks |-> <<>>,
                left |-> FALSE]

IdleChunk ==
    /\ chunk_args = [text |-> <<>>, chunk_size |-> 0, overlap |-> 0]
    /\ chunk_run = NoChunkCall

\* tool_invocation_node not called
NoInvocation == [pc |-> "idle", tool_name |-> <<>>, tool_args |-> <<>>, tool_result |-> <<>>,
                 final_response |-> <<>>, given |-> <<>>, invoked |-> <<>>, outcome |-> <<>>]

IdleInv == inv = NoInvocation

\* main() not started
NoSession == [pc |-> "idle", cmd |-> "none", user_input |-> <<>>, printed |-> <<>>,
              response |-> <<>>, raised |-> FALSE, before |-> <<>>, cleared |-> FALSE,
              recorded |-> <<>>]

IdleSess == sess = NoSession

\* the page before any upload was processed
NoUpload == [calls |-> 0, has_collection |-> FALSE, shown |-> "none", earlier |-> {},
             before |-> <<>>]

IdleUi == ui = NoUpload

\* every component but the memory store idle, and so on
IdleButMemory == IdleAgent /\ IdleTools /\ IdleRag /\ IdlePdf /\ IdleOcr /\ IdleRetr /\ IdleChunk /\ IdleInv /\ IdleSess /\ IdleUi
IdleButAgent == IdleMemory /\ IdleTools /\ IdleRag /\ IdlePdf /\ IdleOcr /\ IdleRetr /\ IdleChunk /\ IdleInv /\ IdleSess /\ IdleUi
IdleButTools == IdleMemory /\ IdleAgent /\ IdleRag /\ IdlePdf /\ IdleOcr /\ IdleRetr /\ IdleChunk /\ IdleInv /\ IdleSess /\ IdleUi
IdleButRag == IdleMemory /\ IdleAgent /\ IdleTools /\ IdlePdf /\ IdleOcr /\ IdleRetr /\ IdleChunk /\ IdleInv /\ IdleSess /\ IdleUi
IdleButPdf == IdleMemory /\ IdleAgent /\ IdleTools /\ IdleRag /\ IdleOcr /\ IdleRetr /\ IdleChunk /\ IdleInv /\ IdleSess /\ IdleUi
IdleButOcr == IdleMemory /\ IdleAgent /\ IdleTools /\ IdleRag /\ IdlePdf /\ IdleRetr /\ IdleChunk /\ IdleInv /\ IdleSess /\ IdleUi
IdleButRetr == IdleMemory /\ IdleAgent /\ IdleTools /\ IdleRag /\ IdlePdf /\ IdleOcr /\ IdleChunk /\ IdleInv /\ IdleSess /\ IdleUi
IdleButChunk == IdleMemory /\ IdleAgent /\ IdleTools /\ IdleRag /\ IdlePdf /\ IdleOcr /\ IdleRetr /\ IdleInv /\ IdleSess /\ IdleUi
IdleButInv == IdleMemory /\ IdleAgent /\ IdleTools /\ IdleRag /\ IdlePdf /\ IdleOcr /\ IdleRetr /\ IdleChunk /\ IdleSess /\ IdleUi
IdleButSess == IdleMemory /\ IdleAgent /\ IdleTools /\ IdleRag /\ IdlePdf /\ IdleOcr /\ IdleRetr /\ IdleChunk /\ IdleInv /\ IdleUi
IdleButUi == IdleMemory /\ IdleAgent /\ IdleTools /\ IdleRag /\ IdlePdf /\ IdleOcr /\ IdleRetr /\ IdleChunk /\ IdleInv /\ IdleSess

InitMemory ==
    /\ file \in StartFiles
    /\ MemoryStoreInit("memory")
    /\ mem_last = [op |-> "init", store |-> "memory", outcome |-> "returned"]
    /\ clock = 0
    /\ IdleButMemory

NextMemory ==
    \/ \E u \in Contents, a \in Contents : append("memory", u, a)
    \/ clear("memory")
    \/ \E key \in SaveKeys, value \in SaveValues : save("memory", key, value)

SpecMemory == InitMemory /\ [][NextMemory]_vars

\* C1: on a store whose message list started empty and that saw only append
\* calls since, after the n-th call the list has exactly 2n entries, entry
\* 2k-1 is the user entry of the k-th call and entry 2k its assistant entry,
\* so the entries of earlier calls are unchanged.
C1_AppendKeepsTurns ==
    \A s \in DOMAIN data :
        tracking[s] =>
            LET m == GetMessages(data[s])
                n == Len(appended[s])
            IN  /\ m.t = "list"
                /\ Len(m.v) = 2 * n
                /\ \A k \in 1..n :
                       /\ m.v[2 * k - 1] = Entry("user", appended[s][k].user, appended[s][k].t1)
                       /\ m.v[2 * k] = Entry("assistant", appended[s][k].assistant, appended[s][k].t2)

\* two different append calls were made on a list that started empty
C1_Witness ==
    /\ tracking["memory"]
    /\ mem_last.op = "append"
    /\ Len(appended["memory"]) = 2
    /\ appended["memory"][1].user # appended["memory"][2].user
    /\ Len(GetMessages(data["memory"]).v) = 4

\* C2: after append, clear or save returns, a new MemoryStore opened on the
\* file loads data equal to the store's in-memory data.
C2_FileRoundTrip ==
    (mem_last.op \in {"append", "clear", "save"} /\ mem_last.outcome = "returned")
        => LoadFromFile(file) = data[mem_last.store]

----------------------------------------------------------------------------
(* core/graph_builder.py *)

\* message contents: a text, the str() of a tool's observation, or the
\* "Error executing <tool>: <e>" text
Text(c) == [kind |-> "text", of |-> c]
Observation(name) == [kind |-> "observation", of |-> name]
ErrorExecuting(name) == [kind |-> "error executing", of |-> name]

HumanMessage(c) == [type |-> "human", content |-> c, tool_calls |-> <<>>, tool_call_id |-> 0]
AIMessage(c, calls) == [type |-> "ai", content |-> c, tool_calls |-> calls, tool_call_id |-> 0]
ToolMessage(c, id) == [type |-> "tool", content |-> c, tool_calls |-> <<>>, tool_call_id |-> id]

\* tools_by_name = {t.name: t for t in tools}
tools_by_name ==
    {"get_weather_info", "get_crypto_price", "verify_phone_number", "search_flights_amadeus"}

\* the tool names an LLM response may carry: bound tools, and a name that is
\* no key of tools_by_name
LlmToolNames == {"get_weather_info", "no_such_tool"}

\* the tool_calls of the response to the n-th LLM call: a list of
\* {"name", "args", "id"}, the ids unique
ToolCalls(n, names) == [i \in 1..Len(names) |-> [name |-> names[i], id |-> 10 * n + i]]

NameLists == UNION {[1..k -> LlmToolNames] : k \in 0..MaxToolCalls}

\* what llm_with_tools.invoke can return on the n-th call
LlmResponses(n) == {AIMessage(Text("reply"), ToolCalls(n, names)) : names \in NameLists}

Last(seq) == seq[Len(seq)]

\* a changed decide_next: it routes to tool_node whatever the last message is
decide_next_always_tools(msgs) == "tool_node"

\* decide_next(state)
decide_next(msgs) == IF Last(msgs).tool_calls # <<>> THEN "tool_node" ELSE "END"

\* graph.add_edge(START, "llm_node"); graph.add_edge("tool_node", "llm_node")
Edge(node) == CASE node = "START" -> "llm_node"
                [] node = "tool_node" -> "llm_node"

\* a changed counter update: the counter is set to 1 by every LLM step
llm_calls_reset(n) == 1

\* state.get("llm_calls", 0) + 1
llm_calls_next(n) == n + 1

\* Node 1: llm_node(state). The LLM call may raise (the run then ends with
\* the exception and no state update) or return a message.
llm_node ==
    /\ pc = "llm_node"
    /\ llm_calls < MaxLlmCalls
    /\ \/ /\ pc' = "raised"
          /\ UNCHANGED <<messages, llm_calls, trace>>
       \/ \E response \in LlmResponses(llm_calls + 1) :
            /\ messages' = messages \o <<response>>
            /\ llm_calls' = llm_calls_next(llm_calls)
            /\ trace' = Append(trace, "llm_node")
            /\ pc' = decide_next(messages')
    /\ UNCHANGED notAgent

\* a changed loop body: the KeyError of an unknown tool name is not turned
\* into a message content, the call is answered like a successful one
ToolResultNoKeyError(call, outcome) ==
    IF outcome = "returned"
    THEN ToolMessage(Observation(call.name), call.id)
    ELSE ToolMessage(ErrorExecuting(call.name), call.id)

\* one iteration of tool_node's loop: tools_by_name[tool_name] raises KeyError
\* for an unknown name, tool_func.invoke may raise; both are caught
ToolResult(call, outcome) ==
    IF call.name \in tools_by_name /\ outcome = "returned"
    THEN ToolMessage(Observation(call.name), call.id)
    ELSE ToolMessage(ErrorExecuting(call.name), call.id)

\* Node 2: tool_node(state); outcomes[i] is what the i-th tool invocation does
tool_node ==
    /\ pc = "tool_node"
    /\ LET tool_calls == Last(messages).tool_calls
       IN  \E outcomes \in [1..Len(tool_calls) -> {"returned", "raised"}] :
             LET results == IF tool_calls = <<>>
                            THEN <<>>
                            ELSE [i \in 1..Len(tool_calls) |-> ToolResult(tool_calls[i], outcomes[i])]
             IN  messages' = messages \o results
    /\ trace' = Append(trace, "tool_node")
    /\ pc' = Edge("tool_node")
    /\ UNCHANGED llm_calls
    /\ UNCHANGED notAgent

\* self.agent.invoke(state) of SmartInfoAgent.run: the state the graph starts in
InitAgent ==
    /\ \E u \in Contents : messages = <<HumanMessage(Text(u))>>
    /\ llm_calls = 0
    /\ trace = <<>>
    /\ pc = Edge("START")
    /\ IdleButAgent

NextAgent == llm_node \/ tool_node

SpecAgent == InitAgent /\ [][NextAgent]_vars

\* the number of llm_node steps in a trace
RECURSIVE CountLlm(_)
CountLlm(t) == IF t = <<>> THEN 0
               ELSE (IF t[1] = "llm_node" THEN 1 ELSE 0) + CountLlm(Tail(t))

\* C3: llm_node runs first; after an llm_node step control goes to tool_node
\* if and only if the message it produced carries a tool call, otherwise the
\* run ends; after a tool_node step control returns to llm_node; tool_node
\* never runs first and never twice in a row. (pc = "raised": the LLM call of
\* the llm_node that control went to raised, which ends the run.)
C3_Routing ==
    /\ trace = <<>> => pc \in {"llm_node", "raised"}
    /\ trace # <<>> => trace[1] = "llm_node"
    /\ (trace # <<>> /\ Last(trace) = "llm_node") =>
          /\ Last(messages).type = "ai"
          /\ pc = "tool_node" <=> Last(messages).tool_calls # <<>>
          /\ pc = "END" <=> Last(messages).tool_calls = <<>>
    /\ (trace # <<>> /\ Last(trace) = "tool_node") => pc \in {"llm_node", "raised"}
    /\ \A i \in 1..Len(trace) :
          trace[i] = "tool_node" => (i > 1 /\ trace[i - 1] = "llm_node")
    /\ \A i \in 2..Len(trace) :
          trace[i] = "llm_node" => trace[i - 1] = "tool_node"

\* a run went llm_node, tool_node, llm_node and ended
C3_Witness ==
    /\ trace = <<"llm_node", "tool_node", "llm_node">>
    /\ pc = "END"

\* C4: in a run started with llm_calls = 0, llm_calls is the number of
\* llm_node steps executed so far (tool_node steps leave it unchanged).
C4_LlmCallsCount == llm_calls = CountLlm(trace)

\* two llm_node steps and a tool_node step ran
C4_Witness ==
    /\ llm_calls = 2
    /\ Len(trace) = 3
    /\ trace[2] = "tool_node"

\* C18: when tool_node has run on a message with tool calls, the messages
\* behind it are one ToolMessage per call, in the order of the calls, each
\* with its call's tool_call_id and with the str of the observation or an
\* 'Error executing' text as content; the call of an unknown tool has the
\* error text; no further ToolMessage follows. A call behind a failed one has
\* its message like every other.
C18_OneToolMessagePerCall ==
    \A p \in 1..Len(messages) :
        LET calls == messages[p].tool_calls
            n == Len(calls)
        IN  (messages[p].type = "ai" /\ calls # <<>> /\ (p < Len(messages) \/ pc # "tool_node")) =>
                /\ Len(messages) >= p + n
                /\ \A i \in 1..n :
                       LET m == messages[p + i]
                       IN  /\ m.type = "tool"
                           /\ m.tool_call_id = calls[i].id
                           /\ m.content \in {Observation(calls[i].name), ErrorExecuting(calls[i].name)}
                           /\ calls[i].name \notin tools_by_name =>
                                  m.content = ErrorExecuting(calls[i].name)
                /\ Len(messages) > p + n => messages[p + n + 1].type # "tool"

\* tool_node ran on a message with two calls: the first, of an unknown tool,
\* failed and the second succeeded
C18_Witness ==
    /\ Len(messages) = 4
    /\ pc = "llm_node"
    /\ Len(messages[2].tool_calls) = 2
    /\ messages[2].tool_calls[1].name \notin tools_by_name
    /\ messages[3].content.kind = "error executing"
    /\ messages[4].content.kind = "observation"
    /\ messages[4].tool_call_id = messages[2].tool_calls[2].id

----------------------------------------------------------------------------
(* tools/crypto_tool.py, numverify_tool.py, weather_tool.py, amadeus_tool.py *)

\* what a call does: it returns a dict with this "status", or it raises
Ret(status) == [raised |-> FALSE, status |-> status]
Raise == [raised |-> TRUE, status |-> "none"]

\* try: return f(...) except Exception as e: return {"status": "error", ...}
TryExcept(r) == IF r.raised THEN Ret("error") ELSE r

\* what requests.get / raise_for_status / resp.json() can do before the body
\* is looked at: requests.Timeout, another RequestException (a network error
\* or an HTTP error status), a body that is no JSON, JSON that is no object
HttpFailures == {"timeout", "network", "http_error", "not_json", "not_object"}

\* the argument a tool is given: a string, a blank string, None, a non-string
ArgKinds == {"text", "blank", "None", "not_str"}

\* CoinMarketAPI.get_price: symbol.upper() runs before the try
CryptoBodies == {"no_data", "no_quote", "null_price", "ok"}
get_price(symbol, http) ==
    IF symbol \in {"None", "not_str"} THEN Raise
    ELSE IF http \in HttpFailures \cup {"no_data", "no_quote", "null_price"} THEN Ret("error")
    ELSE Ret("success")

get_crypto_price(symbol, http) == TryExcept(get_price(symbol, http))

\* NumVerifyAPI.lookup: phone_number.strip() runs before the try
NumVerifyBodies == {"api_error", "api_error_no_dict", "not_valid", "ok"}
lookup(phone_number, http) ==
    IF phone_number = "None" THEN Ret("error")
    ELSE IF phone_number = "not_str" THEN Raise
    ELSE IF phone_number = "blank" THEN Ret("error")
    ELSE IF http \in HttpFailures \cup {"api_error", "api_error_no_dict"} THEN Ret("error")
    ELSE IF http = "not_valid" THEN Ret("invalid")
    ELSE Ret("success")

verify_phone_number(phone_number, http) == TryExcept(lookup(phone_number, http))

\* WeatherStackAPI.get_weather: city.strip() runs before the try
WeatherBodies == {"api_error", "api_error_no_dict", "null_location", "ok"}
get_weather(city, http) ==
    IF city = "None" THEN Ret("error")
    ELSE IF city = "not_str" THEN Raise
    ELSE IF city = "blank" THEN Ret("error")
    ELSE IF http \in HttpFailures \cup {"api_error", "api_error_no_dict", "null_location"}
         THEN Ret("error")
    ELSE Ret("success")

get_weather_info(city, http) == TryExcept(get_weather(city, http))

\* what the token request of AmadeusAPI._authenticate does: it fails (RuntimeError),
\* or answers with or without an "access_token"
AuthOutcomes == {"raise", "no_token", "token"}

\* AmadeusAPI._headers with self.access_token = token: [raised, token]
headers(token, auth) ==
    IF token # "None" THEN [raised |-> FALSE, token |-> token]
    ELSE IF auth = "raise" THEN [raised |-> TRUE, token |-> token]
    ELSE [raised |-> FALSE, token |-> IF auth = "token" THEN "token" ELSE "None"]

\* AmadeusAPI.get_iata_code: every exception is raised again as RuntimeError;
\* no location gives None. [raised, code, token]
IataBodies == {"no_locations", "no_iata_code", "ok"}
get_iata_code(token, auth, http) ==
    LET h == headers(token, auth)
    IN  IF h.raised THEN [raised |-> TRUE, code |-> "None", token |-> h.token]
        ELSE IF http \in HttpFailures \cup {"no_iata_code"}
             THEN [raised |-> TRUE, code |-> "None", token |-> h.token]
        ELSE IF http = "no_locations" THEN [raised |-> FALSE, code |-> "None", token |-> h.token]
        ELSE [raised |-> FALSE, code |-> "IATA", token |-> h.token]

\* AmadeusAPI.search_flights: the two get_iata_code calls run before the try.
\* [result, token]
FlightBodies == {"no_flights", "no_itineraries", "no_segments", "bad_segment", "ok"}
search_flights(token, auth, http) ==
    LET o == get_iata_code(token, auth[1], http[1])
        d == get_iata_code(o.token, auth[2], http[2])
        h == headers(d.token, auth[3])
    IN  IF o.raised THEN [result |-> Raise, token |-> o.token]
        ELSE IF d.raised THEN [result |-> Raise, token |-> d.token]
        ELSE IF o.code = "None" \/ d.code = "None" THEN [result |-> Ret("error"), token |-> d.token]
        ELSE IF h.raised THEN [result |-> Ret("error"), token |-> h.token]
        ELSE IF http[3] \in HttpFailures \cup {"no_flights", "no_itineraries", "bad_segment"}
             THEN [result |-> Ret("error"), token |-> h.token]
        ELSE [result |-> Ret("success"), token |-> h.token]

\* a changed wrapper: the call is made outside any try
search_flights_amadeus_no_try(token, auth, http) == search_flights(token, auth, http)

search_flights_amadeus(token, auth, http) ==
    [search_flights(token, auth, http) EXCEPT !.result = TryExcept(@)]

RunOf(tool, input, http, auth, result) ==
    [tool |-> tool, input |-> input, http |-> http, auth |-> auth, result |-> result]

call_get_crypto_price ==
    /\ tool_run = NoRun
    /\ tool_runs < MaxToolRuns
    /\ \E symbol \in ArgKinds \ {"blank"}, http \in HttpFailures \cup CryptoBodies :
         tool_run' = RunOf("get_crypto_price", symbol, <<http>>, <<>>, get_crypto_price(symbol, http))
    /\ tool_runs' = tool_runs + 1
    /\ UNCHANGED access_token
    /\ UNCHANGED notTool

call_verify_phone_number ==
    /\ tool_run = NoRun
    /\ tool_runs < MaxToolRuns
    /\ \E phone_number \in ArgKinds, http \in HttpFailures \cup NumVerifyBodies :
         tool_run' = RunOf("verify_phone_number", phone_number, <<http>>, <<>>,
                           verify_phone_number(phone_number, http))
    /\ tool_runs' = tool_runs + 1
    /\ UNCHANGED access_token
    /\ UNCHANGED notTool

call_get_weather_info ==
    /\ tool_run = NoRun
    /\ tool_runs < MaxToolRuns
    /\ \E city \in ArgKinds, http \in HttpFailures \cup WeatherBodies :
         tool_run' = RunOf("get_weather_info", city, <<http>>, <<>>, get_weather_info(city, http))
    /\ tool_runs' = tool_runs + 1
    /\ UNCHANGED access_token
    /\ UNCHANGED notTool

call_search_flights_amadeus ==
    /\ tool_run = NoRun
    /\ tool_runs < MaxToolRuns
    /\ tool_runs' = tool_runs + 1
    /\ \E h1 \in HttpFailures \cup IataBodies, h2 \in HttpFailures \cup IataBodies,
          h3 \in HttpFailures \cup FlightBodies, auth \in [1..3 -> AuthOutcomes] :
         LET r == search_flights_amadeus(access_token, auth, <<h1, h2, h3>>)
         IN  /\ tool_run' = RunOf("search_flights_amadeus", "text", <<h1, h2, h3>>, auth, r.result)
             /\ access_token' = r.token
    /\ UNCHANGED notTool

\* the caller has used the result; the next invocation can be made
tool_returned ==
    /\ tool_run # NoRun
    /\ tool_run' = NoRun
    /\ UNCHANGED <<access_token, tool_runs>>
    /\ UNCHANGED notTool

\* amadeus_client = AmadeusAPI(): the token request answered, with or without a token
InitTools ==
    /\ access_token \in {"token", "None"}
    /\ tool_runs = 0
    /\ tool_run = NoRun
    /\ IdleButTools

NextTools ==
    \/ call_get_crypto_price
    \/ call_verify_phone_number
    \/ call_get_weather_info
    \/ call_search_flights_amadeus
    \/ tool_returned

SpecTools == InitTools /\ [][NextTools]_vars

\* C5: each of the four tools returns a dict with a "status" key for every
\* input and every outcome of its HTTP calls and never raises; the status is
\* "success" or "error", and verify_phone_number may also return "invalid".
C5_ToolsReturnStatus ==
    tool_run.tool # "none" =>
        /\ ~tool_run.result.raised
        /\ tool_run.result.status \in
              {"success", "error"} \cup
              (IF tool_run.tool = "verify_phone_number" THEN {"invalid"} ELSE {})

\* search_flights_amadeus was called and the IATA lookup of the destination
\* timed out, which get_iata_code raises as RuntimeError
C5_Witness ==
    /\ tool_run.tool = "search_flights_amadeus"
    /\ tool_run.http[1] = "ok"
    /\ tool_run.http[2] = "timeout"
    /\ tool_run.result = Ret("error")

----------------------------------------------------------------------------
(* Python str operations; a str is a sequence of one-character strings *)

\* the lower-case letter of each upper-case letter
ToLower ==
    [c \in {"A", "B", "C", "D", "E", "F", "G", "H", "I", "J", "K", "L", "M",
            "N", "O", "P", "Q", "R", "S", "T", "U", "V", "W", "X", "Y", "Z"} |->
        CASE c = "A" -> "a" [] c = "B" -> "b" [] c = "C" -> "c" [] c = "D" -> "d"
          [] c = "E" -> "e" [] c = "F" -> "f" [] c = "G" -> "g" [] c = "H" -> "h"
          [] c = "I" -> "i" [] c = "J" -> "j" [] c = "K" -> "k" [] c = "L" -> "l"
          [] c = "M" -> "m" [] c = "N" -> "n" [] c = "O" -> "o" [] c = "P" -> "p"
          [] c = "Q" -> "q" [] c = "R" -> "r" [] c = "S" -> "s" [] c = "T" -> "t"
          [] c = "U" -> "u" [] c = "V" -> "v" [] c = "W" -> "w" [] c = "X" -> "x"
          [] c = "Y" -> "y" [] c = "Z" -> "z"]

LowerChar(c) == IF c \in DOMAIN ToLower THEN ToLower[c] ELSE c

\* str.lower()
RECURSIVE Lower(_)
Lower(str) == IF str = <<>> THEN <<>> ELSE <<LowerChar(str[1])>> \o Lower(Tail(str))

\* str.endswith(suffix)
EndsWith(str, suffix) ==
    /\ Len(str) >= Len(suffix)
    /\ SubSeq(str, Len(str) - Len(suffix) + 1, Len(str)) = suffix

\* the characters str.strip() removes
Whitespace == {" ", "\n", "\r", "\t"}

RECURSIVE LStrip(_)
LStrip(str) == IF str # <<>> /\ str[1] \in Whitespace THEN LStrip(Tail(str)) ELSE str

RECURSIVE RStrip(_)
RStrip(str) == IF str # <<>> /\ str[Len(str)] \in Whitespace
               THEN RStrip(SubSeq(str, 1, Len(str) - 1))
               ELSE str

\* str.strip()
Strip(str) == RStrip(LStrip(str))

\* str.replace("\r\n", "\n")
RECURSIVE ReplaceCrLf(_)
ReplaceCrLf(str) ==
    IF str = <<>> THEN <<>>
    ELSE IF Len(str) >= 2 /\ str[1] = "\r" /\ str[2] = "\n"
         THEN <<"\n">> \o ReplaceCrLf(SubSeq(str, 3, Len(str)))
    ELSE <<str[1]>> \o ReplaceCrLf(Tail(str))

\* str.split("\n"): the pieces between the newlines
RECURSIVE SplitLines(_, _)
SplitLines(str, piece) ==
    IF str = <<>> THEN <<piece>>
    ELSE IF str[1] = "\n" THEN <<piece>> \o SplitLines(Tail(str), <<>>)
    ELSE SplitLines(Tail(str), Append(piece, str[1]))

\* " ".join(parts)
RECURSIVE JoinSpace(_)
JoinSpace(parts) ==
    IF parts = <<>> THEN <<>>
    ELSE IF Len(parts) = 1 THEN parts[1]
    ELSE parts[1] \o <<" ">> \o JoinSpace(Tail(parts))

Min(a, b) == IF a <= b THEN a ELSE b

----------------------------------------------------------------------------
(* core/utils.py: chunk_text *)

\* the iteration count after which the loop of chunk_text gives up
SafetyGuard == 100000

\* [p.strip() for p in text.split("\n") if p.strip()]
RECURSIVE Paragraphs(_)
Paragraphs(pieces) ==
    IF pieces = <<>> THEN <<>>
    ELSE IF Strip(pieces[1]) # <<>> THEN <<Strip(pieces[1])>> \o Paragraphs(Tail(pieces))
    ELSE Paragraphs(Tail(pieces))

\* steps 2-4 of chunk_text: the text the chunks are cut from
Joined(text) == JoinSpace(Paragraphs(SplitLines(Strip(ReplaceCrLf(text)), <<>>)))

\* joined[start:end], the slice of Python for start >= 0: a negative end
\* counts from the end of the string
PySlice(str, start, end) ==
    LET stop == IF end >= 0 THEN Min(end, Len(str))
                ELSE IF Len(str) + end > 0 THEN Len(str) + end ELSE 0
    IN  SubSeq(str, start + 1, stop)

\* a mutation: the overlap is taken twice
NextStartLessOverlap(start, chunk_size, overlap) == start + chunk_size - overlap - overlap

\* next_start = start + chunk_size - overlap
NextStart(start, chunk_size, overlap) == start + chunk_size - overlap

\* a mutation: equal chunk_size and overlap pass
InvalidParamsStrict(chunk_size, overlap) == chunk_size < overlap

\* step 6 of chunk_text: if chunk_size <= overlap
InvalidParams(chunk_size, overlap) == chunk_size <= overlap

\* one round of the while loop of chunk_text, entered with start < length:
\* the loop variables after it, and whether a break left the loop
LoopBody(joined, st, chunk_size, overlap) ==
    LET length == Len(joined)
        iteration == st.iteration + 1
        end == Min(st.start + chunk_size, length)
        chunk == Strip(PySlice(joined, st.start, end))
        added == IF chunk # <<>> THEN Append(st.chunks, chunk) ELSE st.chunks
        next_start == NextStart(st.start, chunk_size, overlap)
    IN  IF next_start <= st.start
        THEN [start |-> st.start, iteration |-> iteration, chunks |-> added, left |-> TRUE]
        ELSE [start |-> next_start, iteration |-> iteration, chunks |-> added,
              left |-> next_start >= length \/ iteration > SafetyGuard]

\* step 8 of chunk_text: chunks = [], start = 0, iteration = 0
LoopStart == [start |-> 0, iteration |-> 0, chunks |-> <<>>, left |-> FALSE]

\* step 9 of chunk_text: the while loop
RECURSIVE ChunkLoop(_, _, _, _)
ChunkLoop(joined, st, chunk_size, overlap) ==
    IF st.left \/ st.start >= Len(joined) THEN st.chunks
    ELSE ChunkLoop(joined, LoopBody(joined, st, chunk_size, overlap), chunk_size, overlap)

\* chunk_text(text, chunk_size, overlap): [raised, chunks]
chunk_text(text, chunk_size, overlap) ==
    LET joined == Joined(text)
    IN  IF joined = <<>> THEN [raised |-> FALSE, chunks |-> <<>>]
        ELSE IF InvalidParams(chunk_size, overlap) THEN [raised |-> TRUE, chunks |-> <<>>]
        ELSE IF Len(joined) <= chunk_size THEN [raised |-> FALSE, chunks |-> <<joined>>]
        ELSE [raised |-> FALSE, chunks |-> ChunkLoop(joined, LoopStart, chunk_size, overlap)]

----------------------------------------------------------------------------
(* core/rag.py: index_documents *)

\* the contents of an upload, by what each parser gets out of the bytes:
\* parse_pdf, parse_docx and extract_text_from_image_bytes return "" for bytes
\* they cannot read, bytes.decode("utf-8") raises for bytes that are no UTF-8
SomeText == <<"a", "b", " ", "c">>
Bytes(pdf, docx, image, utf8) == [pdf |-> pdf, docx |-> docx, image |-> image, utf8 |-> utf8]
NotUtf8 == <<"UnicodeDecodeError">>
PdfBytes == Bytes(SomeText, <<>>, <<>>, NotUtf8)
DocxBytes == Bytes(<<>>, SomeText, <<>>, NotUtf8)
ImageBytes == Bytes(<<>>, <<>>, SomeText, NotUtf8)
TextBytes == Bytes(<<>>, <<>>, <<>>, SomeText)
BlankBytes == Bytes(<<>>, <<>>, <<>>, <<" ", "\n">>)

Doc(fname, fbytes) == [fname |-> fname, fbytes |-> fbytes]

\* the uploads, (filename, file_bytes): files named after their type in
\* lower, upper and mixed case, and files whose name does not say what they hold
Docs ==
    {Doc(<<"a", ".", "p", "d", "f">>, PdfBytes), Doc(<<"A", ".", "P", "D", "F">>, PdfBytes),
     Doc(<<"a", ".", "d", "o", "c", "x">>, DocxBytes), Doc(<<"a", ".", "D", "o", "c", "X">>, DocxBytes),
     Doc(<<"a", ".", "j", "p", "g">>, ImageBytes), Doc(<<"a", ".", "J", "P", "E", "G">>, ImageBytes),
     Doc(<<"a", ".", "p", "n", "g">>, ImageBytes), Doc(<<"a", ".", "t", "x", "t">>, TextBytes),
     Doc(<<"a", ".", "t", "x", "t">>, BlankBytes), Doc(<<"a", ".", "t", "x", "t">>, PdfBytes),
     Doc(<<"a", ".", "p", "d", "f", ".", "t", "x", "t">>, TextBytes),
     Doc(<<"a", "p", "d", "f">>, PdfBytes), Doc(<<"a", ".", "p", "d", "f">>, TextBytes),
     Doc(<<"a", ".", "d", "o", "c">>, TextBytes)}

\* try: text = fbytes.decode("utf-8") except Exception: text = ""
DecodeUtf8(fbytes) == IF fbytes.utf8 = NotUtf8 THEN <<>> ELSE fbytes.utf8

\* what one parser returns for the bytes
RunParser(parser, fbytes) ==
    CASE parser = "parse_pdf" -> fbytes.pdf
      [] parser = "parse_docx" -> fbytes.docx
      [] parser = "extract_text_from_image_bytes" -> fbytes.image
      [] parser = "decode" -> DecodeUtf8(fbytes)

\* a changed dispatch: the .pdf test is an if of its own, so a PDF also takes
\* the else branch of the chain that follows
ParsersIfThenChain(fname) ==
    LET fname_lower == Lower(fname)
    IN  (IF EndsWith(fname_lower, <<".", "p", "d", "f">>) THEN <<"parse_pdf">> ELSE <<>>)
        \o (IF EndsWith(fname_lower, <<".", "d", "o", "c", "x">>) THEN <<"parse_docx">>
            ELSE IF \/ EndsWith(fname_lower, <<".", "j", "p", "g">>)
                    \/ EndsWith(fname_lower, <<".", "j", "p", "e", "g">>)
                    \/ EndsWith(fname_lower, <<".", "p", "n", "g">>)
                 THEN <<"extract_text_from_image_bytes">>
            ELSE <<"decode">>)

\* the if / elif chain of index_documents: the parsers run on a file, in order
Parsers(fname) ==
    LET fname_lower == Lower(fname)
    IN  IF EndsWith(fname_lower, <<".", "p", "d", "f">>) THEN <<"parse_pdf">>
        ELSE IF EndsWith(fname_lower, <<".", "d", "o", "c", "x">>) THEN <<"parse_docx">>
        ELSE IF \/ EndsWith(fname_lower, <<".", "j", "p", "g">>)
                \/ EndsWith(fname_lower, <<".", "j", "p", "e", "g">>)
                \/ EndsWith(fname_lower, <<".", "p", "n", "g">>)
             THEN <<"extract_text_from_image_bytes">>
        ELSE <<"decode">>

\* text = "" and then the assignments of the parsers run: the last one stays
ExtractText(fname, fbytes) ==
    LET ps == Parsers(fname)
    IN  IF ps = <<>> THEN <<>> ELSE RunParser(ps[Len(ps)], fbytes)

\* STEP 2-3 of index_documents for the files from position i on: the loop stops
\* at the first file whose chunk_text raises. [raised, parsed, chunks]
RECURSIVE ParseLoop(_, _, _, _, _, _)
ParseLoop(docs, i, parsed, chunks, chunk_size, overlap) ==
    IF i > Len(docs) THEN [raised |-> FALSE, parsed |-> parsed, chunks |-> chunks]
    ELSE LET fname == docs[i].fname
             text == ExtractText(fname, docs[i].fbytes)
             entry == [fname |-> fname, parsers |-> Parsers(fname), text |-> text]
             cut == chunk_text(text, chunk_size, overlap)
             new == [j \in 1..Len(cut.chunks) |->
                        [id |-> <<i - 1, j - 1>>, text |-> cut.chunks[j],
                         source |-> fname, chunk |-> j - 1]]
         IN  IF Strip(text) = <<>>
             THEN ParseLoop(docs, i + 1, Append(parsed, entry), chunks, chunk_size, overlap)
             ELSE IF cut.raised
             THEN [raised |-> TRUE, parsed |-> Append(parsed, entry), chunks |-> chunks]
             ELSE ParseLoop(docs, i + 1, Append(parsed, entry), chunks \o new, chunk_size, overlap)

\* vector_store.add_texts(texts, metadatas, ids): a chunk replaces the stored
\* chunk of the same id
AddTexts(stored, chunks) ==
    LET ids == {chunks[k].id : k \in 1..Len(chunks)}
        latest(id) == CHOOSE k \in 1..Len(chunks) :
                         /\ chunks[k].id = id
                         /\ \A m \in (k + 1)..Len(chunks) : chunks[m].id # id
    IN  [id \in ids \cup DOMAIN stored |->
            IF id \in ids
            THEN [text |-> chunks[latest(id)].text, source |-> chunks[latest(id)].source,
                  chunk |-> chunks[latest(id)].chunk]
            ELSE stored[id]]

\* index_documents(docs, collection_name, chunk_size, overlap); connect and add
\* are what create_chroma_vectorstore and add_texts do ("ok" or "raise")
IndexDocuments(docs, chunk_size, overlap, connect, add) ==
    LET run == ParseLoop(docs, 1, <<>>, <<>>, chunk_size, overlap)
        ids == [k \in 1..Len(run.chunks) |-> run.chunks[k].id]
    IN  IF connect = "raise"
        THEN /\ idx' = [state |-> "raised", docs |-> docs, parsed |-> <<>>, ids |-> <<>>]
             /\ UNCHANGED collection
        ELSE IF run.raised
        THEN /\ idx' = [state |-> "raised", docs |-> docs, parsed |-> run.parsed, ids |-> <<>>]
             /\ UNCHANGED collection
        ELSE IF run.chunks = <<>>
        THEN /\ idx' = [state |-> "returned", docs |-> docs, parsed |-> run.parsed, ids |-> <<>>]
             /\ UNCHANGED collection
        ELSE IF add = "raise"
        THEN /\ idx' = [state |-> "raised", docs |-> docs, parsed |-> run.parsed, ids |-> ids]
             /\ UNCHANGED collection
        ELSE /\ idx' = [state |-> "returned", docs |-> docs, parsed |-> run.parsed, ids |-> ids]
             /\ collection' = AddTexts(collection, run.chunks)

\* a call of index_documents, the rest of the program standing still
index_documents(docs, chunk_size, overlap, connect, add) ==
    /\ idx = NoIndexing
    /\ IndexDocuments(docs, chunk_size, overlap, connect, add)
    /\ UNCHANGED notRag

\* the lists of uploads a call is given
DocLists == UNION {[1..k -> Docs] : k \in 0..MaxDocs}

\* the chunk_size and overlap index_documents is called with
ChunkParams == {<<3, 1>>, <<2, 2>>}

\* the collection as an earlier session left it: empty, or holding the one
\* chunk of a text file
StartCollections ==
    {<<>>,
     <<0, 0>> :> [text |-> <<"o", "l", "d">>, source |-> <<"o", ".", "t", "x", "t">>, chunk |-> 0]}

InitRag ==
    /\ collection \in StartCollections
    /\ idx = NoIndexing
    /\ IdleButRag

NextRag ==
    /\ idx = NoIndexing
    /\ \E docs \in DocLists, cp \in ChunkParams, connect \in {"ok", "raise"}, add \in {"ok", "raise"} :
          index_documents(docs, cp[1], cp[2], connect, add)

SpecRag == InitRag /\ [][NextRag]_vars

\* the extension of a file name: its end from the last "." on, "" without one
Extension(fname) ==
    IF \E i \in 1..Len(fname) : fname[i] = "."
    THEN LET last == CHOOSE i \in 1..Len(fname) :
                        fname[i] = "." /\ \A k \in (i + 1)..Len(fname) : fname[k] # "."
         IN  SubSeq(fname, last, Len(fname))
    ELSE <<>>

\* the parser the lower-cased extension stands for
ParserOfExtension(ext) ==
    CASE ext = <<".", "p", "d", "f">> -> "parse_pdf"
      [] ext = <<".", "d", "o", "c", "x">> -> "parse_docx"
      [] ext \in {<<".", "j", "p", "g">>, <<".", "j", "p", "e", "g">>, <<".", "p", "n", "g">>}
            -> "extract_text_from_image_bytes"
      [] OTHER -> "decode"

\* C6: index_documents picks the parser of each file by the lower-cased
\* extension of its name (.pdf: parse_pdf, .docx: parse_docx, .jpg/.jpeg/.png:
\* image OCR, anything else: UTF-8 decoding, where bytes that do not decode
\* give empty text and no error), and exactly one parser is applied to a file.
C6_ParserByExtension ==
    \A i \in 1..Len(idx.parsed) :
        LET f == idx.parsed[i]
            fbytes == idx.docs[i].fbytes
            parser == ParserOfExtension(Lower(Extension(f.fname)))
        IN  /\ f.fname = idx.docs[i].fname
            /\ f.parsers = <<parser>>
            /\ f.text = RunParser(parser, fbytes)
            /\ (parser = "decode" /\ fbytes.utf8 = NotUtf8) =>
                  /\ f.text = <<>>
                  /\ (idx.state = "raised" => i < Len(idx.parsed) \/ idx.ids # <<>>)

\* a call parsed an upper-case PDF name and then a file of another type whose
\* bytes are no UTF-8, and returned
C6_Witness ==
    /\ idx.state = "returned"
    /\ Len(idx.parsed) = 2
    /\ idx.parsed[1].fname = <<"A", ".", "P", "D", "F">>
    /\ idx.parsed[1].parsers = <<"parse_pdf">>
    /\ idx.parsed[2].fname = <<"a", "p", "d", "f">>
    /\ idx.parsed[2].parsers = <<"decode">>
    /\ idx.docs[2].fbytes.utf8 = NotUtf8
    /\ idx.parsed[2].text = <<>>

\* ---------------------------------------------------------------------------
\* core/utils.py: extract_image_ocr and parse_pdf
\* ---------------------------------------------------------------------------

\* parse_pdf(..., max_image_pixels: int = 3_000_000)
max_image_pixels == 3000000

\* extract_image_ocr: an OCR text of fewer characters is dropped
MinOcrChars == 20

\* what pytesseract.image_to_string reads from a scanned page: twenty
\* characters and a line end, and one character less
OcrLongText ==
    <<"s", "c", "a", "n", "n", "e", "d", " ", "p", "a", "g", "e", " ", "t", "e", "x", "t",
      " ", "o", "k", "\n">>

OcrShortText ==
    <<"s", "c", "a", "n", "n", "e", "d", " ", "p", "a", "g", "e", " ", "t", "e", "x", "t",
      " ", "o", "\n">>

\* what running OCR on a pixmap does: pix.tobytes or Image.open raises, the
\* conversion takes longer than the timeout, pytesseract raises, or it reads a text
OcrOutcomes ==
    {[kind |-> "raise_open", text |-> <<>>],
     [kind |-> "slow", text |-> <<>>],
     [kind |-> "raise_ocr", text |-> <<>>],
     [kind |-> "text", text |-> OcrLongText],
     [kind |-> "text", text |-> OcrShortText]}

\* extract_image_ocr(pix, timeout): the whole body is in a try, every failure gives ""
extract_image_ocr(ocr) ==
    CASE ocr.kind = "raise_open" -> <<>>
      [] ocr.kind = "slow" -> <<>>
      [] ocr.kind = "raise_ocr" -> <<>>
      [] OTHER -> IF Len(Strip(ocr.text)) < MinOcrChars THEN <<>> ELSE Strip(ocr.text)

\* what page.extract_text() does: raises, returns None, or returns a text
ExtractOutcomes ==
    {[kind |-> "raise", text |-> <<>>],
     [kind |-> "none", text |-> <<>>],
     [kind |-> "text", text |-> <<>>],
     [kind |-> "text", text |-> <<" ", "\n">>],
     [kind |-> "text", text |-> <<" ", "A", "\n">>],
     [kind |-> "text", text |-> <<"B">>]}

\* what doc.load_page(idx - 1).get_pixmap(dpi=150) does: raises, or gives a
\* pixmap of some width and height
RenderOutcomes ==
    {[kind |-> "raise", width |-> 0, height |-> 0],
     [kind |-> "pix", width |-> 1000, height |-> 1000],
     [kind |-> "pix", width |-> 1500, height |-> 2000],
     [kind |-> "pix", width |-> 1501, height |-> 2000]}

Page(extract, render, ocr) == [extract |-> extract, render |-> render, ocr |-> ocr]

SmallPix == [kind |-> "pix", width |-> 1000, height |-> 1000]
ReadsLong == [kind |-> "text", text |-> OcrLongText]

\* the pages of the PDFs parsed: every extraction outcome on a page that
\* renders and reads well, and every rendering and OCR outcome on a page
\* without text
PdfPages ==
    {Page(e, SmallPix, ReadsLong) : e \in ExtractOutcomes}
    \cup {Page([kind |-> "text", text |-> <<" ", "\n">>], r, ReadsLong) : r \in RenderOutcomes}
    \cup {Page([kind |-> "none", text |-> <<>>], SmallPix, o) : o \in OcrOutcomes}
    \cup {Page([kind |-> "text", text |-> <<"B">>], [kind |-> "pix", width |-> 1501, height |-> 2000],
               ReadsLong),
          Page([kind |-> "raise", text |-> <<>>], [kind |-> "pix", width |-> 1501, height |-> 2000],
               ReadsLong)}

\* what loading the bytes does: PdfReader(...) raises, fitz.open(...) raises,
\* len(pdf.pages) raises, or the PDF opens
OpenOutcomes == {"ok", "raise_PdfReader", "raise_fitz_open", "raise_pages"}

\* the PDFs: total_pages pages, broken_at = k > 0 when fetching page k in the
\* loop over pdf.pages raises, and pages the pages met so far
PdfDocs ==
    {d \in [open : OpenOutcomes, total_pages : 0..MaxPdfPages, broken_at : 0..MaxPdfPages,
            pages : {<<>>}] : d.broken_at <= d.total_pages}

\* STEP 1: raw_text = page.extract_text(); page_text = raw_text.strip() if
\* raw_text and raw_text.strip(); an exception is printed and page_text stays ""
NormalExtraction(page) ==
    IF page.extract.kind = "text" /\ page.extract.text # <<>> /\ Strip(page.extract.text) # <<>>
    THEN Strip(page.extract.text)
    ELSE <<>>

\* a mutation: OCR on every page
NeedsOcrAlways(page_text) == TRUE

\* STEP 2: if not page_text
NeedsOcr(page_text) == page_text = <<>>

\* if pix.width * pix.height > max_image_pixels
TooLarge(pix) == pix.width * pix.height > max_image_pixels

\* STEP 2 of one page: the page text after it and what was done about OCR
OcrStep(page, page_text) ==
    IF ~NeedsOcr(page_text) THEN [page_text |-> page_text, ocr |-> "not_needed"]
    ELSE IF page.render.kind = "raise" THEN [page_text |-> page_text, ocr |-> "render_raised"]
    ELSE IF TooLarge(page.render) THEN [page_text |-> page_text, ocr |-> "skipped_large"]
    ELSE LET ocr_text == extract_image_ocr(page.ocr)
         IN  [page_text |-> IF ocr_text # <<>> THEN ocr_text ELSE page_text,
              ocr |-> "attempted"]

\* FINAL DECISION: if page_text: final_text += page_text + "\n\n"
AppendPage(final_text, page_text) ==
    IF page_text # <<>> THEN final_text \o page_text \o <<"\n", "\n">> ELSE final_text

\* a mutation: the exception leaves parse_pdf
OuterReraise(st) == [st EXCEPT !.pc = "done", !.raised = TRUE]

\* except Exception as e: print(...) of the outer try, then return final_text.strip()
OuterExcept(st) == [st EXCEPT !.pc = "done", !.returned = Strip(st.final_text)]

\* parse_pdf up to the loop: final_text = "", the PDF is loaded
pdf_load ==
    /\ pdf_run.pc = "start"
    /\ pdf_run' = IF pdf_doc.open = "ok"
              THEN [pdf_run EXCEPT !.pc = "loop"]
              ELSE OuterExcept(pdf_run)
    /\ UNCHANGED <<pdf_doc, notPdf>>

\* one round of the loop over pdf.pages, on a page that does what page says
pdf_page(page) ==
    /\ pdf_run.pc = "loop"
    /\ pdf_run.i < pdf_doc.total_pages
    /\ IF pdf_doc.broken_at = pdf_run.i + 1
       THEN /\ pdf_run' = OuterExcept(pdf_run)
            /\ UNCHANGED pdf_doc
       ELSE LET step == OcrStep(page, NormalExtraction(page))
            IN  /\ pdf_run' = [pdf_run EXCEPT !.i = pdf_run.i + 1,
                                   !.final_text = AppendPage(pdf_run.final_text, step.page_text),
                                   !.log = Append(pdf_run.log, step)]
                /\ pdf_doc' = [pdf_doc EXCEPT !.pages = Append(@, page)]
    /\ UNCHANGED notPdf

\* the loop is over: return final_text.strip()
pdf_return ==
    /\ pdf_run.pc = "loop"
    /\ pdf_run.i = pdf_doc.total_pages
    /\ pdf_run' = [pdf_run EXCEPT !.pc = "done", !.returned = Strip(pdf_run.final_text)]
    /\ UNCHANGED <<pdf_doc, notPdf>>

InitPdf ==
    /\ pdf_doc \in PdfDocs
    /\ pdf_run = [NoPdfCall EXCEPT !.pc = "start"]
    /\ IdleButPdf

NextPdf == pdf_load \/ (\E page \in PdfPages : pdf_page(page)) \/ pdf_return

SpecPdf == InitPdf /\ [][NextPdf]_vars

\* whether normal extraction gave a non-blank text for the page
HasText(page) ==
    /\ page.extract.kind = "text"
    /\ \E k \in 1..Len(page.extract.text) : page.extract.text[k] \notin Whitespace

\* the texts joined, each followed by a blank line
RECURSIVE JoinPages(_)
JoinPages(texts) ==
    IF texts = <<>> THEN <<>> ELSE Head(texts) \o <<"\n", "\n">> \o JoinPages(Tail(texts))

\* the non-empty page texts of the log, in page order
RECURSIVE PageTexts(_)
PageTexts(log) ==
    IF log = <<>> THEN <<>>
    ELSE IF Head(log).page_text = <<>> THEN PageTexts(Tail(log))
    ELSE <<Head(log).page_text>> \o PageTexts(Tail(log))

IsInfix(part, whole) ==
    \E k \in 0..(Len(whole) - Len(part)) : SubSeq(whole, k + 1, k + Len(part)) = part

\* C10: parse_pdf never crashes: whatever loading the PDF, extracting,
\* rendering or reading a page does, it returns a string and raises nothing,
\* and the text of the pages before a failure is in what it returns.
C10_NeverCrashes ==
    /\ ~pdf_run.raised
    /\ pdf_run.pc = "done" =>
          /\ pdf_run.returned \in Seq(STRING)
          /\ \A k \in 1..Len(pdf_run.log) :
                HasText(pdf_doc.pages[k]) => IsInfix(Strip(pdf_doc.pages[k].extract.text), pdf_run.returned)

\* the first page gave text, fetching the second page raised, and parse_pdf
\* returned the text of the first
C10_Witness ==
    /\ pdf_run.pc = "done"
    /\ pdf_doc.broken_at = 2
    /\ Len(pdf_run.log) = 1
    /\ HasText(pdf_doc.pages[1])
    /\ pdf_run.returned = Strip(pdf_doc.pages[1].extract.text)
    /\ ~pdf_run.raised

\* ---------------------------------------------------------------------------
\* core/utils.py: extract_text_from_image_bytes and parallel_ocr
\* ---------------------------------------------------------------------------

\* ThreadPoolExecutor(max_workers=2)
max_workers == 2

\* parallel_ocr(..., max_pages: int = 5)
DefaultMaxPages == 5

\* extract_text_from_image_bytes: a text of fewer characters is dropped
MinTesseractChars == 20

\* the page indices of the document
PageIndices == {0, 1}

\* what tesseract prints for a page with text: the page's own text and a line end
TesseractText(page_index) ==
    (IF page_index = 0 THEN <<"0">> ELSE <<"1">>) \o <<":">> \o OcrLongText

\* what the tesseract run on the image of a page does: writing the temporary
\* file or starting tesseract raises, tesseract runs past the timeout, or it
\* prints a text
TesseractOutcomes(page_index) ==
    {[kind |-> "raise", stdout |-> <<>>],
     [kind |-> "TimeoutExpired", stdout |-> <<>>],
     [kind |-> "stdout", stdout |-> <<>>],
     [kind |-> "stdout", stdout |-> <<" ", "\n">>],
     [kind |-> "stdout", stdout |-> OcrShortText],
     [kind |-> "stdout", stdout |-> TesseractText(page_index)]}

\* extract_text_from_image_bytes(image_bytes, timeout)
TextFromImageBytes(run) ==
    CASE run.kind = "TimeoutExpired" -> <<>>
      [] run.kind = "raise" -> <<>>
      [] OTHER -> LET text == Strip(run.stdout)
                  IN  IF text = <<>> \/ Len(text) < MinTesseractChars THEN <<>> ELSE text

\* what one OCR task meets: rendering the page raises or gives a pixmap,
\* pix.tobytes raises, and what tesseract does
TaskOutcomes(page_index) ==
    {[render |-> [kind |-> "raise", width |-> 0, height |-> 0], run |-> [kind |-> "raise", stdout |-> <<>>]],
     [render |-> [kind |-> "pix", width |-> 2000, height |-> 1501],
      run |-> [kind |-> "stdout", stdout |-> TesseractText(page_index)]],
     [render |-> [kind |-> "pix_tobytes_raises", width |-> 10, height |-> 10],
      run |-> [kind |-> "stdout", stdout |-> TesseractText(page_index)]]}
    \cup {[render |-> [kind |-> "pix", width |-> 1500, height |-> 2000], run |-> r] :
             r \in TesseractOutcomes(page_index)}

\* ocr_task(page_index): every failure is caught and gives ""
ocr_task(outcome) ==
    IF outcome.render.kind = "raise" THEN <<>>
    ELSE IF outcome.render.width * outcome.render.height > 3000000 THEN <<>>
    ELSE IF outcome.render.kind = "pix_tobytes_raises" THEN <<>>
    ELSE TextFromImageBytes(outcome.run)

\* blank_pages[:max_pages], the slice of Python: a negative stop counts from the end
Slice(list, stop) ==
    LET n == IF stop >= 0 THEN Min(stop, Len(list))
             ELSE IF Len(list) + stop > 0 THEN Len(list) + stop ELSE 0
    IN  SubSeq(list, 1, n)

\* the futures in each state
Queued(futures) == {i \in 1..Len(futures) : futures[i].state = "queued"}
Running(futures) == {i \in 1..Len(futures) : futures[i].state = "running"}
Finished(futures) == {i \in 1..Len(futures) : futures[i].state = "finished"}

\* a mutation: a pool with no limit on its threads
WorkerAlwaysFree(futures) == TRUE

\* the executor runs a queued work item when one of its at most max_workers
\* threads is not running one
WorkerFree(futures) == Cardinality(Running(futures)) < max_workers

\* ocr_results = []; pages_to_process = blank_pages[:max_pages]; the executor is made
ocr_call ==
    /\ ocr_pool.pc = "start"
    /\ ocr_pool' = [ocr_pool EXCEPT !.pc = "pool",
                                    !.pages_to_process = Slice(ocr_args.blank_pages, ocr_args.max_pages)]
    /\ UNCHANGED <<ocr_args, notOcr>>

\* executor.submit(ocr_task, idx) for the next idx in pages_to_process
ocr_submit ==
    /\ ocr_pool.pc = "pool"
    /\ Len(ocr_pool.futures) < Len(ocr_pool.pages_to_process)
    /\ ocr_pool' = [ocr_pool EXCEPT !.futures =
            Append(@, [page_index |-> ocr_pool.pages_to_process[Len(ocr_pool.futures) + 1],
                       state |-> "queued", result |-> <<>>])]
    /\ UNCHANGED <<ocr_args, notOcr>>

\* a worker thread takes the oldest queued work item
worker_start ==
    /\ Queued(ocr_pool.futures) # {}
    /\ WorkerFree(ocr_pool.futures)
    /\ LET i == CHOOSE q \in Queued(ocr_pool.futures) : \A r \in Queued(ocr_pool.futures) : q <= r
       IN  ocr_pool' = [ocr_pool EXCEPT !.futures[i].state = "running"]
    /\ UNCHANGED <<ocr_args, notOcr>>

\* a worker thread comes to the end of ocr_task and sets the result of the future
worker_finish ==
    /\ \E i \in Running(ocr_pool.futures) :
          \E outcome \in TaskOutcomes(ocr_pool.futures[i].page_index) :
             ocr_pool' = [ocr_pool EXCEPT !.futures[i].state = "finished",
                                          !.futures[i].result = ocr_task(outcome)]
    /\ UNCHANGED <<ocr_args, notOcr>>

\* for f in as_completed(futures): text = f.result(); if text.strip(): append
ocr_as_completed ==
    /\ ocr_pool.pc = "pool"
    /\ Len(ocr_pool.futures) = Len(ocr_pool.pages_to_process)
    /\ \E f \in Finished(ocr_pool.futures) \ ocr_pool.yielded :
          LET text == ocr_pool.futures[f].result
          IN  ocr_pool' = [ocr_pool EXCEPT
                  !.yielded = @ \cup {f},
                  !.ocr_results = IF Strip(text) # <<>> THEN Append(@, text) ELSE @]
    /\ UNCHANGED <<ocr_args, notOcr>>

\* as_completed is exhausted, the with block shuts the executor down, return ocr_results
ocr_return ==
    /\ ocr_pool.pc = "pool"
    /\ Len(ocr_pool.futures) = Len(ocr_pool.pages_to_process)
    /\ ocr_pool.yielded = 1..Len(ocr_pool.futures)
    /\ ocr_pool' = [ocr_pool EXCEPT !.pc = "returned", !.returned = ocr_pool.ocr_results]
    /\ UNCHANGED <<ocr_args, notOcr>>

\* the blank_pages lists of at most n entries
BlankPageLists == UNION {[1..n -> PageIndices] : n \in 0..MaxBlankPages}

InitOcr ==
    /\ ocr_args \in [blank_pages : BlankPageLists, max_pages : 0..MaxBlankPages \cup {DefaultMaxPages}]
    /\ ocr_pool = [NoOcrCall EXCEPT !.pc = "start"]
    /\ IdleButOcr

NextOcr ==
    \/ ocr_call
    \/ ocr_submit
    \/ worker_start
    \/ worker_finish
    \/ ocr_as_completed
    \/ ocr_return

SpecOcr == InitOcr /\ [][NextOcr]_vars

\* how often text is among the results of the futures in set S
ResultCount(S, text) == Cardinality({i \in S : ocr_pool.futures[i].result = text})

\* how often text is in the list
ListCount(list, text) == Cardinality({k \in 1..Len(list) : list[k] = text})

\* C8: parallel_ocr submits tasks only for the first max_pages entries of
\* blank_pages; at most two tasks run at the same time; when it returns every
\* submitted task has finished and ocr_results holds exactly one result for
\* each processed page whose OCR text is not blank.
C8_TwoWorkers ==
    /\ \A i \in 1..Len(ocr_pool.futures) :
          /\ i <= ocr_args.max_pages
          /\ i <= Len(ocr_args.blank_pages)
          /\ ocr_pool.futures[i].page_index = ocr_args.blank_pages[i]
    /\ Cardinality(Running(ocr_pool.futures)) <= 2
    /\ ocr_pool.pc = "returned" =>
          /\ Len(ocr_pool.futures) = Min(ocr_args.max_pages, Len(ocr_args.blank_pages))
          /\ \A i \in 1..Len(ocr_pool.futures) : ocr_pool.futures[i].state = "finished"
          /\ \A k \in 1..Len(ocr_pool.returned) :
                \E c \in 1..Len(ocr_pool.returned[k]) : ocr_pool.returned[k][c] \notin Whitespace
          /\ \A i \in 1..Len(ocr_pool.futures) :
                LET text == ocr_pool.futures[i].result
                IN  (\E c \in 1..Len(text) : text[c] \notin Whitespace) =>
                       ListCount(ocr_pool.returned, text)
                          = ResultCount(1..Len(ocr_pool.futures), text)
          /\ Len(ocr_pool.returned)
                = Cardinality({i \in 1..Len(ocr_pool.futures) : ocr_pool.futures[i].result # <<>>})

\* three blank pages and max_pages 2: two tasks were submitted, the one of
\* the second page was yielded first, and parallel_ocr returned both texts
C8_Witness ==
    /\ ocr_pool.pc = "returned"
    /\ ocr_args.blank_pages = <<0, 1, 0>>
    /\ ocr_args.max_pages = 2
    /\ Len(ocr_pool.futures) = 2
    /\ ocr_pool.returned = <<Strip(TesseractText(1)), Strip(TesseractText(0))>>

\* ---------------------------------------------------------------------------
\* core/rag.py: get_retriever_for_collection
\* ---------------------------------------------------------------------------

\* get_retriever_for_collection(vector_store, top_k: int = 5)
DefaultTopK == 5

\* a langchain Document and the (Document, score) pair of a search result;
\* scores in thousandths
Document(page_content, source) ==
    [page_content |-> page_content, metadata |-> [source |-> source, chunk |-> 0]]

SearchResults ==
    {<<Document(<<"a", "b">>, <<"a", ".", "t", "x", "t">>), 120>>,
     <<Document(<<"c">>, <<"b", ".", "p", "d", "f">>), 450>>}

\* what the store holds for the query, best first
StoredLists == UNION {[1..n -> SearchResults] : n \in 0..MaxStored}

\* vector_store.similarity_search_with_score(query, k=k): raises, or returns
\* the k best pairs
similarity_search_with_score(store, k, outcome) ==
    IF outcome = "raise" THEN [raised |-> TRUE, value |-> <<>>]
    ELSE [raised |-> FALSE, value |-> SubSeq(store, 1, Min(k, Len(store)))]

\* formatted = [(doc.page_content, doc.metadata, score) for doc, score in results]
Formatted(results) ==
    [i \in 1..Len(results) |-> <<results[i][1].page_content, results[i][1].metadata, results[i][2]>>]

\* a mutation: no test of the query
BlankQueryNever(query) == FALSE

\* if not query.strip()
BlankQuery(query) == Strip(query) = <<>>

\* def retriever(query: str, k: int = top_k): the k of the call, where k is
\* <<>> when the caller passes none
KOfCall(k, top_k) == IF k = <<>> THEN top_k ELSE k[1]

\* the queries and the k a caller passes
Queries == UNION {[1..n -> {" ", "\n", "q"}] : n \in 0..MaxQueryLen}
KArgs == {<<>>} \cup {<<n>> : n \in 0..MaxK}

\* retriever = get_retriever_for_collection(vector_store, top_k)
get_retriever_for_collection(top_k) ==
    /\ retr.state = "none"
    /\ retr' = [retr EXCEPT !.state = "made", !.top_k = top_k]
    /\ UNCHANGED <<vector_store, notRetr>>

\* retriever(query, k) on a store where the search ends as outcome says
retriever(query, k, outcome) ==
    /\ retr.state = "made"
    /\ LET call == [retr EXCEPT !.query = query, !.k = k]
           kk == KOfCall(k, retr.top_k)
           results == similarity_search_with_score(vector_store, kk, outcome)
       IN  retr' =
             IF BlankQuery(query)
             THEN [call EXCEPT !.state = "returned", !.returned = <<>>]
             ELSE IF results.raised
             THEN [call EXCEPT !.state = "returned", !.returned = <<>>,
                               !.searches = <<[query |-> query, k |-> kk, raised |-> TRUE]>>]
             ELSE [call EXCEPT !.state = "returned", !.returned = Formatted(results.value),
                               !.searches = <<[query |-> query, k |-> kk, raised |-> FALSE]>>]
    /\ UNCHANGED <<vector_store, notRetr>>

InitRetr ==
    /\ vector_store \in StoredLists
    /\ retr = NoRetrieverCall
    /\ IdleButRetr

NextRetr ==
    \/ \E top_k \in (1..MaxK) \cup {DefaultTopK} : get_retriever_for_collection(top_k)
    \/ \E query \in Queries, k \in KArgs, outcome \in {"ok", "raise"} : retriever(query, k, outcome)

SpecRetr == InitRetr /\ [][NextRetr]_vars

\* whether every character of the query is white space
AllWhitespace(query) == \A c \in 1..Len(query) : query[c] \in Whitespace

\* C9: the retriever never raises; for an empty or whitespace-only query it
\* returns [] without a search; when the search fails it returns []; else it
\* returns one (content, metadata, score) triple per search result in the
\* store's order; the search is made with k = top_k unless the caller passes a k.
C9_RetrieverNeverRaises ==
    /\ retr.state \in {"none", "made", "returned"}
    /\ retr.state = "returned" =>
          /\ AllWhitespace(retr.query) => retr.returned = <<>> /\ retr.searches = <<>>
          /\ ~AllWhitespace(retr.query) =>
                /\ Len(retr.searches) = 1
                /\ retr.searches[1].query = retr.query
                /\ retr.searches[1].k = (IF retr.k = <<>> THEN retr.top_k ELSE retr.k[1])
                /\ retr.searches[1].raised => retr.returned = <<>>
                /\ ~retr.searches[1].raised =>
                      /\ Len(retr.returned) = Min(retr.searches[1].k, Len(vector_store))
                      /\ \A i \in 1..Len(retr.returned) :
                            /\ retr.returned[i][1] = vector_store[i][1].page_content
                            /\ retr.returned[i][2] = vector_store[i][1].metadata
                            /\ retr.returned[i][3] = vector_store[i][2]

\* a retriever made with top_k 5 was asked " q" without a k: the search was
\* made with k 5 and gave back the two results of the store as triples
C9_Witness ==
    /\ retr.state = "returned"
    /\ retr.top_k = 5
    /\ retr.query = <<" ", "q">>
    /\ retr.k = <<>>
    /\ retr.searches = <<[query |-> <<" ", "q">>, k |-> 5, raised |-> FALSE]>>
    /\ Len(vector_store) = 2
    /\ vector_store[1] # vector_store[2]
    /\ retr.returned = <<<<vector_store[1][1].page_content, vector_store[1][1].metadata, vector_store[1][2]>>,
                         <<vector_store[2][1].page_content, vector_store[2][1].metadata, vector_store[2][2]>>>>

\* ---------------------------------------------------------------------------
\* core/utils.py: chunk_text, step by step
\* ---------------------------------------------------------------------------

\* chunk_text(text, chunk_size, overlap) is called; steps 1-4: the newlines
\* are normalized, the paragraphs split and joined
chunk_call(text, chunk_size, overlap) ==
    /\ chunk_run.pc = "idle"
    /\ chunk_args' = [text |-> text, chunk_size |-> chunk_size, overlap |-> overlap]
    /\ chunk_run' = [chunk_run EXCEPT !.pc = "start", !.joined = Joined(text)]
    /\ UNCHANGED notChunk

\* steps 5-8 of chunk_text: the early returns, the ValueError, or into the loop
chunk_begin ==
    /\ chunk_run.pc = "start"
    /\ chunk_run' =
          IF chunk_run.joined = <<>>
          THEN [chunk_run EXCEPT !.pc = "returned"]
          ELSE IF InvalidParams(chunk_args.chunk_size, chunk_args.overlap)
          THEN [chunk_run EXCEPT !.pc = "raised"]
          ELSE IF Len(chunk_run.joined) <= chunk_args.chunk_size
          THEN [chunk_run EXCEPT !.pc = "returned", !.chunks = <<chunk_run.joined>>]
          ELSE [chunk_run EXCEPT !.pc = "loop"]
    /\ UNCHANGED <<chunk_args, notChunk>>

\* one round of the while loop
chunk_iteration ==
    /\ chunk_run.pc = "loop"
    /\ chunk_run.start < Len(chunk_run.joined)
    /\ ~chunk_run.left
    /\ LET st == LoopBody(chunk_run.joined, chunk_run, chunk_args.chunk_size, chunk_args.overlap)
       IN  chunk_run' = [chunk_run EXCEPT !.start = st.start, !.iteration = st.iteration,
                                          !.chunks = st.chunks, !.left = st.left]
    /\ UNCHANGED <<chunk_args, notChunk>>

\* the loop is left: step 11, return chunks
chunk_return ==
    /\ chunk_run.pc = "loop"
    /\ chunk_run.left \/ chunk_run.start >= Len(chunk_run.joined)
    /\ chunk_run' = [chunk_run EXCEPT !.pc = "returned"]
    /\ UNCHANGED <<chunk_args, notChunk>>

\* the texts of at most MaxTextLen characters
Texts == UNION {[1..n -> {"a", " ", "\n"}] : n \in 0..MaxTextLen}

InitChunk ==
    /\ IdleChunk
    /\ IdleButChunk

\* the steps of a call that was made
ChunkSteps == chunk_begin \/ chunk_iteration \/ chunk_return

NextChunk ==
    \/ /\ chunk_run.pc = "idle"
       /\ \E text \in Texts, chunk_size \in (-1)..MaxChunkSize, overlap \in (-2)..MaxChunkSize :
             chunk_call(text, chunk_size, overlap)
    \/ ChunkSteps

SpecChunk == InitChunk /\ [][NextChunk]_vars

\* the scheduling of a sequential call: once made, its next step is taken
SpecChunkFair == SpecChunk /\ WF_vars(ChunkSteps)

\* whether the text has a character that is no white space
NonBlank(text) == \E c \in 1..Len(text) : text[c] \notin Whitespace

\* C11 as stated: chunk_text raises ValueError whenever chunk_size <= overlap,
\* for every text.
C11_RaisesForEveryText ==
    (chunk_run.pc \in {"returned", "raised", "loop"} /\ chunk_args.chunk_size <= chunk_args.overlap)
        => chunk_run.pc = "raised"

\* C11, amended: when chunk_size <= overlap, chunk_text raises ValueError for
\* every text with a non-blank character and returns no chunks; for a text
\* without one it returns the empty list and does not raise.
C11_RaisesUnlessBlank ==
    (chunk_run.pc \notin {"idle", "start"} /\ chunk_args.chunk_size <= chunk_args.overlap) =>
        /\ chunk_run.chunks = <<>>
        /\ NonBlank(chunk_args.text) => chunk_run.pc = "raised"
        /\ ~NonBlank(chunk_args.text) => chunk_run.pc = "returned"

\* chunk_text raised for a text with a character and chunk_size = overlap
C11_Witness ==
    /\ chunk_run.pc = "raised"
    /\ chunk_args.chunk_size = chunk_args.overlap
    /\ NonBlank(chunk_args.text)

TOOL_REGISTRY ==
    {"get_weather_info", "get_crypto_price", "verify_phone_number", "search_flights_amadeus"}

\* a dict as the list of its items in insertion order, the keys distinct
DictHas(d, key) == \E i \in 1..Len(d) : d[i].key = key
DictGet(d, key) == d[CHOOSE i \in 1..Len(d) : d[i].key = key].value

\* d[key] = value: the value of a key already there is replaced in place
DictSet(d, key, value) ==
    IF DictHas(d, key)
    THEN [i \in 1..Len(d) |-> IF d[i].key = key THEN [key |-> key, value |-> value] ELSE d[i]]
    ELSE Append(d, [key |-> key, value |-> value])

\* the keys of alias_map
AliasKeys ==
    {<<"l", "o", "c", "a", "t", "i", "o", "n">>, <<"c", "i", "t", "y">>, <<"s", "o", "u", "r", "c", "e">>, <<"o", "r", "i", "g", "i", "n">>,
     <<"f", "r", "o", "m">>, <<"d", "e", "s", "t", "i", "n", "a", "t", "i", "o", "n">>, <<"t", "o">>, <<"p", "h", "o", "n", "e">>,
     <<"n", "u", "m", "b", "e", "r">>, <<"s", "y", "m", "b", "o", "l">>, <<"d", "a", "t", "e">>}

\* alias_map[key]
alias_map(key) ==
    CASE key = <<"l", "o", "c", "a", "t", "i", "o", "n">>             -> <<"c", "i", "t", "y">>
      [] key = <<"c", "i", "t", "y">>                                 -> <<"c", "i", "t", "y">>
      [] key = <<"s", "o", "u", "r", "c", "e">>                       -> <<"o", "r", "i", "g", "i", "n", "_", "c", "i", "t", "y">>
      [] key = <<"o", "r", "i", "g", "i", "n">>                       -> <<"o", "r", "i", "g", "i", "n", "_", "c", "i", "t", "y">>
      [] key = <<"f", "r", "o", "m">>                                 -> <<"o", "r", "i", "g", "i", "n", "_", "c", "i", "t", "y">>
      [] key = <<"d", "e", "s", "t", "i", "n", "a", "t", "i", "o", "n">> -> <<"d", "e", "s", "t", "i", "n", "a", "t", "i", "o", "n", "_", "c", "i", "t", "y">>
      [] key = <<"t", "o">>                                           -> <<"d", "e", "s", "t", "i", "n", "a", "t", "i", "o", "n", "_", "c", "i", "t", "y">>
      [] key = <<"p", "h", "o", "n", "e">>                            -> <<"p", "h", "o", "n", "e", "_", "n", "u", "m", "b", "e", "r">>
      [] key = <<"n", "u", "m", "b", "e", "r">>                       -> <<"p", "h", "o", "n", "e", "_", "n", "u", "m", "b", "e", "r">>
      [] key = <<"s", "y", "m", "b", "o", "l">>                       -> <<"s", "y", "m", "b", "o", "l">>
      [] key = <<"d", "a", "t", "e">>                                 -> <<"d", "a", "t", "e">>

\* alias_map.get(key.lower(), key)
NormalizedKey(key) == IF Lower(key) \in AliasKeys THEN alias_map(Lower(key)) ELSE key

\* normalized_args = {}; for key, value in args.items(): normalized_args[...] = value
RECURSIVE NormalizeArgs(_, _)
NormalizeArgs(args, normalized_args) ==
    IF args = <<>> THEN normalized_args
    ELSE NormalizeArgs(Tail(args),
                       DictSet(normalized_args, NormalizedKey(Head(args).key), Head(args).value))

\* result.get(key, default) on the dict a tool returned
ResultGet(result, key, default) ==
    IF key \in DOMAIN result.fields THEN result.fields[key] ELSE default

\* str.upper() of the symbols the crypto tool returns
Upper(str) == IF str = "btc" THEN "BTC" ELSE str

\* the dicts a tool returns: its success dict and an error dict
ErrorDict == [fields |-> ("status" :> "error" @@ "message" :> "Network or API error"), flights |-> <<>>]
Flight(from, to) ==
    [from |-> from, to |-> to, airline |-> "AI", price |-> "120.50", departure_time |-> "2026-01-01T10:00"]

ToolDicts(tool_name) ==
    CASE tool_name = "get_weather_info" ->
            {ErrorDict,
             [fields |-> ("status" :> "success" @@ "temperature_c" :> "31" @@ "description" :> "clear sky"
                          @@ "feels_like_c" :> "33" @@ "humidity" :> "40" @@ "wind_kph" :> "12"),
              flights |-> <<>>]}
      [] tool_name = "get_crypto_price" ->
            {ErrorDict,
             [fields |-> ("status" :> "success" @@ "symbol" :> "BTC" @@ "price_usd" :> "64000.12"),
              flights |-> <<>>]}
      [] tool_name = "verify_phone_number" ->
            {ErrorDict,
             [fields |-> ("status" :> "success" @@ "number" :> "+14158586273" @@ "country_name" :> "US"
                          @@ "carrier" :> "AT&T" @@ "line_type" :> "mobile"),
              flights |-> <<>>]}
      [] tool_name = "search_flights_amadeus" ->
            {ErrorDict,
             [fields |-> ("status" :> "success"), flights |-> <<Flight("DEL", "BOM")>>],
             [fields |-> ("status" :> "success"),
              flights |-> <<Flight("DEL", "BOM"), Flight("DEL", "GOI"), Flight("DEL", "BLR"),
                            Flight("DEL", "MAA")>>]}

\* one line of formatted_flights, and the lines of flights[:3] joined by "\n"
FlightLine(f) ==
    <<f.from, " -> ", f.to, " (", f.airline, ") - $", f.price, " USD, Departs ", f.departure_time>>

RECURSIVE JoinLines(_)
JoinLines(lines) ==
    IF lines = <<>> THEN <<>>
    ELSE IF Len(lines) = 1 THEN lines[1]
    ELSE lines[1] \o <<"\n">> \o JoinLines(Tail(lines))

\* the human-readable response for the dict of a tool, as the pieces of the
\* f-string (the emoji sign each text starts with is left out)
FormatResponse(tool_name, result, normalized_args) ==
    CASE tool_name = "get_weather_info" ->
            <<" Weather Report for ",
              IF DictHas(normalized_args, <<"c", "i", "t", "y">>)
              THEN DictGet(normalized_args, <<"c", "i", "t", "y">>) ELSE "Unknown",
              ":\n- Temperature: ", ResultGet(result, "temperature_c", "N/A"),
              "C\n- Condition: ", ResultGet(result, "description", "N/A"),
              "\n- Feels Like: ", ResultGet(result, "feels_like_c", "N/A"),
              "C\n- Humidity: ", ResultGet(result, "humidity", "N/A"),
              "%\n- Wind Speed: ", ResultGet(result, "wind_kph", "N/A"), " km/h">>
      [] tool_name = "get_crypto_price" ->
            <<" ", Upper(ResultGet(result, "symbol", "")), " Price: $",
              ResultGet(result, "price_usd", "N/A"), " USD">>
      [] tool_name = "verify_phone_number" ->
            <<" Phone Verification - ", ResultGet(result, "international_format", ""),
              "\n- Country: ", ResultGet(result, "country_name", "Unknown"),
              "\n- Carrier: ", ResultGet(result, "carrier", "Unknown"),
              "\n- Line Type: ", ResultGet(result, "line_type", "Unknown")>>
      [] tool_name = "search_flights_amadeus" ->
            IF result.flights # <<>>
            THEN <<" Available Flights:\n">>
                 \o JoinLines([i \in 1..Min(3, Len(result.flights)) |-> FlightLine(result.flights[i])])
            ELSE <<"No flights found for the given route/date.">>

\* a mutation: the exception of the tool leaves the node
InvokeUncaught(st, tool_name, e) == [st EXCEPT !.pc = "raised"]

\* except Exception as e: state.final_response = f"Error executing {tool_name}: {e}"
InvokeCaught(st, tool_name, e) ==
    [st EXCEPT !.pc = "returned", !.final_response = <<"Error executing ", tool_name, ": ", e>>]

\* what tool.invoke(normalized_args) does: it raises (the arguments do not fit
\* the tool, or anything else), or returns a dict of the tool
InvokeOutcomes(tool_name) ==
    {[raised |-> TRUE, e |-> "validation error", result |-> ErrorDict]}
    \cup {[raised |-> FALSE, e |-> "", result |-> d] : d \in ToolDicts(tool_name)}

\* tool_invocation_node(state, memory) on the state with this tool_name,
\* tool_args and tool_result, each <<>> for None and <<x>> for the value x
tool_invocation_node(state_tool_name, state_tool_args, state_tool_result) ==
    /\ inv.pc = "idle"
    /\ LET tool_name == IF state_tool_name = <<>> THEN "" ELSE state_tool_name[1]
           args == IF state_tool_args = <<>> THEN <<>> ELSE state_tool_args[1]
           st == [inv EXCEPT !.tool_name = state_tool_name, !.tool_args = state_tool_args,
                             !.tool_result = state_tool_result, !.given = args]
           normalized_args == NormalizeArgs(args, <<>>)
           with_city == IF /\ tool_name = "get_weather_info"
                           /\ ~DictHas(normalized_args, <<"c", "i", "t", "y">>)
                           /\ DictHas(args, <<"l", "o", "c", "a", "t", "i", "o", "n">>)
                        THEN DictSet(normalized_args, <<"c", "i", "t", "y">>, DictGet(args, <<"l", "o", "c", "a", "t", "i", "o", "n">>))
                        ELSE normalized_args
       IN  IF tool_name = ""
           THEN inv' = [st EXCEPT !.pc = "returned",
                                  !.final_response = <<" No tool specified by the agent.">>]
           ELSE IF tool_name \notin TOOL_REGISTRY
           THEN inv' = [st EXCEPT !.pc = "returned",
                                  !.final_response = <<" Unknown tool: ", tool_name>>]
           ELSE IF tool_name = "get_weather_info" /\ ~DictHas(with_city, <<"c", "i", "t", "y">>)
           THEN inv' = [st EXCEPT !.pc = "returned",
                                  !.final_response = <<" Missing required parameter: 'city'. ",
                                      "Please provide a city name (e.g., 'Delhi' or 'Mumbai').">>]
           ELSE \E outcome \in InvokeOutcomes(tool_name) :
                  LET called == [st EXCEPT !.invoked = <<[tool |-> tool_name, args |-> with_city]>>,
                                           !.outcome = <<outcome>>]
                  IN  inv' = IF outcome.raised
                             THEN InvokeCaught(called, tool_name, outcome.e)
                             ELSE [called EXCEPT
                                     !.pc = "returned",
                                     !.tool_name = <<tool_name>>,
                                     !.tool_args = <<with_city>>,
                                     !.tool_result = <<outcome.result>>,
                                     !.final_response =
                                         FormatResponse(tool_name, outcome.result, with_city)]
    /\ UNCHANGED notInv

\* the keys an agent gives: aliases in lower, upper and mixed case, and other keys
ArgKeys ==
    {<<"l", "o", "c", "a", "t", "i", "o", "n">>, <<"C", "i", "t", "y">>, <<"c", "i", "t", "y">>, <<"f", "r", "o", "m">>,
     <<"T", "O">>, <<"p", "h", "o", "n", "e">>, <<"s", "y", "m", "b", "o", "l">>, <<"U", "n", "i", "t", "s">>}

\* the tool_args dicts: distinct keys, the i-th value "v<i>"
ArgValue(i) == <<"v1", "v2", "v3", "v4">>[i]
ArgDicts ==
    UNION {{[i \in 1..n |-> [key |-> ks[i], value |-> ArgValue(i)]] :
               ks \in {f \in [1..n -> ArgKeys] : \A i, j \in 1..n : i # j => f[i] # f[j]}} :
           n \in 0..MaxArgs}

\* the tool names an agent gives: None, "", the registry, and a name not in it
StateToolNames == {<<>>, <<"">>, <<"translate_text">>} \cup {<<name>> : name \in TOOL_REGISTRY}

InitInv ==
    /\ IdleInv
    /\ IdleButInv

NextInv ==
    /\ inv.pc = "idle"
    /\ \E state_tool_name \in StateToolNames, state_tool_args \in {<<>>} \cup {<<d>> : d \in ArgDicts},
          state_tool_result \in {<<>>, <<ErrorDict>>} :
          tool_invocation_node(state_tool_name, state_tool_args, state_tool_result)

SpecInv == InitInv /\ [][NextInv]_vars

\* whether the pieces make a non-empty string
NonEmptyText(pieces) == \E i \in 1..Len(pieces) : pieces[i] # ""

RenamedKey(key) ==
    LET k == Lower(key)
    IN  IF k = <<"l", "o", "c", "a", "t", "i", "o", "n">> THEN <<"c", "i", "t", "y">>
        ELSE IF k \in {<<"s", "o", "u", "r", "c", "e">>, <<"o", "r", "i", "g", "i", "n">>, <<"f", "r", "o", "m">>} THEN <<"o", "r", "i", "g", "i", "n", "_", "c", "i", "t", "y">>
        ELSE IF k \in {<<"d", "e", "s", "t", "i", "n", "a", "t", "i", "o", "n">>, <<"t", "o">>} THEN <<"d", "e", "s", "t", "i", "n", "a", "t", "i", "o", "n", "_", "c", "i", "t", "y">>
        ELSE IF k \in {<<"p", "h", "o", "n", "e">>, <<"n", "u", "m", "b", "e", "r">>} THEN <<"p", "h", "o", "n", "e", "_", "n", "u", "m", "b", "e", "r">>
        ELSE IF k \in {<<"c", "i", "t", "y">>, <<"s", "y", "m", "b", "o", "l">>, <<"d", "a", "t", "e">>} THEN k
        ELSE key

\* C14: each argument key is renamed through the alias map, matched
\* case-insensitively, other keys are kept, and every argument value given by
\* the agent reaches the tool under its renamed key.
C14_EveryValueReaches ==
    (inv.pc = "returned" /\ inv.invoked # <<>>) =>
        LET sent == inv.invoked[1].args
        IN  /\ \A i \in 1..Len(inv.given) :
                  /\ DictHas(sent, RenamedKey(inv.given[i].key))
                  /\ DictGet(sent, RenamedKey(inv.given[i].key)) = inv.given[i].value
            /\ \A j \in 1..Len(sent) :
                  \E i \in 1..Len(inv.given) : sent[j].key = RenamedKey(inv.given[i].key)

----------------------------------------------------------------------------
(* main.py: the command-line chat loop, with core/graph_builder.py's
   SmartInfoAgent wrapper. main() constructs two MemoryStore objects on the
   same file: its own ("memory", line 12) and the one SmartInfoAgent.__init__
   makes ("agent", graph_builder.py line 130). The fields of sess:
     pc          "idle" before main(), "loop" inside the chat loop, "exited"
     cmd         the branch the last loop round took
     user_input  the stripped line of the last round
     printed     what the last round printed: <<>> or one value
     response    what agent.run returned in the last round: <<>> or one value
   history:
     raised      a step inside the try of the last agent.run raised
     before      the agent's store data when the last agent.run began
     cleared     the clear command has reported the memory as cleared
     recorded    the entries agent.run recorded since the session began or,
                 after a clear command, since that command *)

\* an empty JSON object, a value a hand-written file can hold under "messages"
DictV == [t |-> "dict", v |-> <<>>]

\* the files a session can start on
SessionStartFiles == StartFiles \cup {JsonFile("messages" :> DictV)}

\* str.capitalize() of the roles
Capitalize(role) ==
    CASE role = "user" -> "User"
      [] role = "assistant" -> "Assistant"
      [] OTHER -> role

\* f"[{timestamp}] {role}: {content}"
HistoryLine(msg) ==
    [timestamp |-> msg.timestamp, role |-> Capitalize(msg.role), content |-> msg.content]

\* MemoryStore.get_history on data d: the lines joined by "\n", or the
\* sentence for an empty history
get_history(d) ==
    LET logs == GetMessages(d).v
        formatted == [i \in 1..Len(logs) |-> HistoryLine(logs[i])]
    IN  IF formatted # <<>>
        THEN [lines |-> formatted, text |-> "lines"]
        ELSE [lines |-> <<>>, text |-> "No conversation history."]

\* what self.agent.invoke(state) does: it raises, or it returns a state whose
\* last message is the LLM's final AIMessage with content reply
GraphOutcomes ==
    {[raised |-> TRUE, reply |-> ""]} \cup {[raised |-> FALSE, reply |-> c] : c \in Contents}

\* f"Could not complete the request.\nDetails: {e}"
CouldNotComplete == [kind |-> "error", text |-> "Could not complete the request."]

\* what run returns
Reply(reply) == [kind |-> "reply", text |-> reply]

\* a changed run: the reply is returned whether or not a step raised
RunReturnReplyAlways(reply, raised) == Reply(reply)

\* return reply, or the return of the except clause
RunReturn(reply, raised) == IF raised THEN CouldNotComplete ELSE Reply(reply)

\* the last n elements of a list
LastN(list, n) == SubSeq(list, Len(list) - n + 1, Len(list))

\* SmartInfoAgent.run(user_input) with result the outcome of the graph run
SmartInfoAgent_run(user_input, result) ==
    IF result.raised
    THEN /\ sess' = [sess EXCEPT !.cmd = "run", !.user_input = <<user_input>>,
                                 !.response = <<RunReturn(result.reply, TRUE)>>,
                                 !.printed = <<RunReturn(result.reply, TRUE)>>,
                                 !.raised = TRUE, !.before = <<data["agent"]>>]
         /\ UNCHANGED memVars
    ELSE /\ MemoryStore_append("agent", user_input, result.reply)
         /\ LET append_raised == mem_last'.outcome = "raised"
            IN  sess' = [sess EXCEPT
                    !.cmd = "run", !.user_input = <<user_input>>,
                    !.response = <<RunReturn(result.reply, append_raised)>>,
                    !.printed = <<RunReturn(result.reply, append_raised)>>,
                    !.raised = append_raised, !.before = <<data["agent"]>>,
                    !.recorded = IF append_raised THEN @
                                 ELSE @ \o LastN(data'["agent"]["messages"].v, 2)]

\* the words of the commands
ExitWords == {<<"e", "x", "i", "t">>, <<"q", "u", "i", "t">>, <<"q">>}
HistoryWords == {<<"h", "i", "s", "t", "o", "r", "y">>, <<"l", "o", "g", "s">>}
ClearWords == {<<"c", "l", "e", "a", "r">>, <<"r", "e", "s", "e", "t">>}

\* the lines the user types
InputLines ==
    {<<"h", "i">>, <<" ", "o", "k", " ">>, <<"H", "i", "s", "t", "o", "r", "y">>,
     <<"l", "o", "g", "s", " ">>, <<"c", "l", "e", "a", "r">>, <<"R", "E", "S", "E", "T">>,
     <<"Q", "u", "i", "t">>, <<" ">>}

\* the str of a list of characters
StrOf(chars) ==
    CASE chars = <<"h", "i">> -> "hi"
      [] chars = <<"o", "k">> -> "ok"

\* one round of the chat loop of main() on the line input() returns; a blank
\* line changes nothing
main_round(line, result) ==
    LET user_input == Strip(line)
    IN  /\ sess.pc = "loop"
        /\ user_input # <<>>
        /\ IF Lower(user_input) \in ExitWords
           THEN /\ sess' = [sess EXCEPT !.pc = "exited", !.cmd = "exit",
                                        !.user_input = <<user_input>>,
                                        !.printed = <<>>, !.response = <<>>]
                /\ UNCHANGED memVars
           ELSE IF Lower(user_input) \in HistoryWords
           THEN /\ sess' = [sess EXCEPT !.cmd = "history", !.user_input = <<user_input>>,
                                        !.printed = <<get_history(data["memory"])>>,
                                        !.response = <<>>]
                /\ UNCHANGED memVars
           ELSE IF Lower(user_input) \in ClearWords
           THEN /\ MemoryStore_clear("memory")
                /\ sess' = [sess EXCEPT !.cmd = "clear", !.user_input = <<user_input>>,
                                        !.printed = <<>>, !.response = <<>>,
                                        !.cleared = TRUE, !.recorded = <<>>]
           ELSE SmartInfoAgent_run(StrOf(user_input), result)
        /\ UNCHANGED notMain

\* main() up to the chat loop: both stores constructed on the file
InitMain ==
    /\ file \in SessionStartFiles
    /\ data = [s \in {"memory", "agent"} |-> LoadFromFile(file)]
    /\ appended = [s \in {"memory", "agent"} |-> <<>>]
    /\ tracking = [s \in {"memory", "agent"} |-> IsEmptyList(GetMessages(LoadFromFile(file)))]
    /\ mem_last = [op |-> "init", store |-> "agent", outcome |-> "returned"]
    /\ clock = 0
    /\ sess = [NoSession EXCEPT !.pc = "loop"]
    /\ IdleAgent /\ IdleTools /\ IdleRag /\ IdlePdf /\ IdleOcr /\ IdleRetr /\ IdleChunk /\ IdleInv
    /\ IdleUi

NextMain == \E line \in InputLines, result \in GraphOutcomes : main_round(line, result)

SpecMain == InitMain /\ [][NextMain]_vars

\* the conversation entries the memory file holds
FileMessages == GetMessages(LoadFromFile(file)).v

\* C15: once the clear command has reported the memory as cleared, the file
\* holds no entry recorded before the command: its entries are those of the
\* agent turns made since, whatever their number.
C15_ClearedStaysCleared == sess.cleared => FileMessages = sess.recorded

\* C16: the history command prints the lines of every turn agent.run has
\* recorded so far, in the order of the turns, as the last lines of the history.
C16_HistoryShowsTurns ==
    sess.cmd = "history" =>
        LET lines == sess.printed[1].lines
            n == Len(sess.recorded)
        IN  /\ Len(lines) >= n
            /\ LastN(lines, n) = [i \in 1..n |-> HistoryLine(sess.recorded[i])]

\* C17: agent.run returns a string and does not raise; when no step inside it
\* raised, the agent's memory is the memory before the call followed by the
\* user entry of the input and the assistant entry of the reply, and the reply
\* is returned; when a step raised, the text 'Could not complete the request'
\* is returned and the memory is as before the call.
C17_RunNeverRaises ==
    sess.cmd = "run" =>
        LET r == sess.response[1]
            before == sess.before[1]
            msgs == data["agent"]["messages"].v
        IN  /\ r.kind \in {"reply", "error"}
            /\ IF sess.raised
               THEN /\ r = CouldNotComplete
                    /\ data["agent"] = before
               ELSE /\ r.kind = "reply"
                    /\ Len(msgs) = Len(before["messages"].v) + 2
                    /\ SubSeq(msgs, 1, Len(msgs) - 2) = before["messages"].v
                    /\ \E t1, t2 \in 0..MaxClock :
                           LastN(msgs, 2) = NewTurn(sess.user_input[1], r.text, t1, t2)

\* a run whose graph raised, after a run of this session that recorded its turn
C17_Witness ==
    /\ sess.cmd = "run"
    /\ sess.raised
    /\ Len(sess.recorded) = 2
    /\ data["agent"]["messages"].v = sess.recorded

\* a run recorded its turn behind the turn of an earlier run
C17_WitnessReply ==
    /\ sess.cmd = "run"
    /\ ~sess.raised
    /\ Len(data["agent"]["messages"].v) = 4

----------------------------------------------------------------------------
(* app.py: the Process Documents handler of the upload page. The fields of ui:
     calls           the times the button was pressed
     has_collection  st.session_state.collection is set
     shown           the message of the last press
   history:
     earlier         the chunk ids that calls before the last one stored
     before          the collection when the last call began: <<>> or one value *)

\* the files of the uploader (type = pdf, docx, txt, jpg, jpeg, png)
UploadedFiles ==
    {Doc(<<"a", ".", "t", "x", "t">>, TextBytes), Doc(<<"b", ".", "p", "d", "f">>, PdfBytes)}

\* the non-empty lists of files a press of the button processes
FileLists == UNION {[1..k -> UploadedFiles] : k \in 1..MaxDocs}

\* the handler leaves chunk_size and overlap at their defaults, a chunk_size
\* greater than the overlap
DefaultChunkParams == {cp \in ChunkParams : cp[1] > cp[2]}

\* the ids a call stored
StoredIds(run) == IF run.state = "returned" THEN {run.ids[k] : k \in 1..Len(run.ids)} ELSE {}

\* a press of Process Documents on the uploaded files. index_documents is
\* called on the collection "session_docs"; when it returns, the session state
\* gets the collection and the retriever, and SmartInfoAgent(retriever=...,
\* rag_top_k=5) raises TypeError, __init__ taking no such argument: every
\* press ends in st.error.
process_documents(files, cp, connect, add) ==
    /\ ui.calls < MaxUploads
    /\ IndexDocuments(files, cp[1], cp[2], connect, add)
    /\ ui' = [calls |-> ui.calls + 1,
              has_collection |-> ui.has_collection \/ idx'.state = "returned",
              shown |-> "error",
              earlier |-> ui.earlier \cup StoredIds(idx),
              before |-> <<collection>>]
    /\ UNCHANGED notUpload

InitUpload ==
    /\ collection \in StartCollections
    /\ idx = NoIndexing
    /\ ui = NoUpload
    /\ IdleButRag

NextUpload ==
    \E files \in FileLists, cp \in DefaultChunkParams, connect \in {"ok", "raise"},
       add \in {"ok", "raise"} :
        process_documents(files, cp, connect, add)

SpecUpload == InitUpload /\ [][NextUpload]_vars

\* C19: a call of index_documents stores no chunk under an id that an earlier
\* call stored in the collection, and every chunk that was in the collection
\* before the call is still the chunk of the same file after it.
C19_IdsUniquePerCollection ==
    ui.calls > 0 =>
        /\ StoredIds(idx) \cap ui.earlier = {}
        /\ \A id \in DOMAIN ui.before[1] :
               /\ id \in DOMAIN collection
               /\ collection[id].source = ui.before[1][id].source

====
